---- MODULE Spec2Model ----
(***************************************************************************)
(* A model of the GRC-20 v2 binary codec (crate grc-20): the Reader/Writer *)
(* primitives, the dictionary builder, the value/op/edit codecs, the       *)
(* canonical encoder and the compressed framing.                           *)
(*                                                                         *)
(* Representation of machine integers.  TLC's integers are 32 bit wide, so *)
(* a u64 (and an i64, as its two's complement bit pattern) is held as its  *)
(* ten base-128 digits, least significant first: digit k holds bits        *)
(* 7(k-1) .. 7k-1, and digit 10 holds bit 63 alone.  LEB128 works on       *)
(* exactly these digits.  Bytes are 0..255, byte strings are sequences of  *)
(* bytes, an Id is a sequence of 16 bytes, and Option<Id> is an Id or the  *)
(* empty sequence (None).                                                  *)
(***************************************************************************)
EXTENDS Integers, Sequences, FiniteSets, TLC

VARIABLES
    pc,        \* position of the driver: which call has been made
    edit,      \* the Edit handed to the encoder
    other,     \* a second Edit (a reordering of edit) / a re-encoding
    encoded,   \* Result<Vec<u8>, EncodeError> of the encode call
    decoded,   \* Result<Edit, DecodeError> of the decode call
    data,      \* the byte slice a Reader / decode_edit is given
    tail,      \* number of further zero bytes that follow data in the input
    result     \* Result of the call made on data

vars == <<pc, edit, other, encoded, decoded, data, tail, result>>

(***************************************************************************)
(* limits.rs (not among the sources; values taken from the crate's limits) *)
(***************************************************************************)
MAX_VARINT_BYTES == 10
MAX_POSITION_LEN == 64
MAX_EDIT_SIZE == 67108864
MAX_STRING_LEN == 16777216
MAX_BYTES_LEN == 67108864
MAX_AUTHORS == 1000
MAX_DICT_SIZE == 1000000
MAX_OPS_PER_EDIT == 1000000
MAX_VALUES_PER_ENTITY == 10000
FORMAT_VERSION == 1
MIN_FORMAT_VERSION == 1
MAX_EMBEDDING_DIMS == 65536
MAX_EMBEDDING_BYTES == 262144
MAGIC_UNCOMPRESSED == <<71, 82, 67, 50>>
MAGIC_COMPRESSED == <<71, 82, 67, 50, 90>>

Nil == <<>>
None == <<>>
NoErr == "ok"

\* a local binding (Rust `let v = ..;`): K is the code that follows, v the
\* bound value, evaluated at most once and only if K uses it
Let(v, K(_)) == K(v)

(***************************************************************************)
(* Bit operations on 7- and 8-bit quantities                               *)
(***************************************************************************)
RECURSIVE BitAnd(_, _)
BitAnd(a, b) ==
    IF a = 0 \/ b = 0 THEN 0
    ELSE ((a % 2) * (b % 2)) + 2 * BitAnd(a \div 2, b \div 2)

(***************************************************************************)
(* u64 / i64 as ten base-128 digits                                        *)
(***************************************************************************)
U64Zero == [k \in 1..10 |-> 0]

RECURSIVE Pow128(_)
Pow128(k) == IF k = 0 THEN 1 ELSE 128 * Pow128(k - 1)

\* n as u64, for 0 <= n < 2^31
U64FromNat(n) == [k \in 1..10 |-> IF k <= 5 THEN (n \div Pow128(k - 1)) % 128 ELSE 0]

\* `x as usize` compared with a limit: the value when below 2^31, else -1
\* (larger than every limit and every length of the model)
U64Small(d) ==
    IF (\A k \in 6..10 : d[k] = 0) /\ d[5] < 8
    THEN d[1] + 128 * d[2] + 16384 * d[3] + 2097152 * d[4] + 268435456 * d[5]
    ELSE -1

U64Gt(d, limit) == U64Small(d) = -1 \/ U64Small(d) > limit

\* `x as u32`: the low 32 bits
U64AsU32(d) == [k \in 1..10 |-> IF k <= 4 THEN d[k] ELSE IF k = 5 THEN d[5] % 16 ELSE 0]

\* 0xFFFFFFFF
SENTINEL == [k \in 1..10 |-> IF k <= 4 THEN 127 ELSE IF k = 5 THEN 15 ELSE 0]

\* (value as u64) << shift for a 7-bit value and shift in {0, 7, .., 63}:
\* bits shifted beyond bit 63 are lost
U64Shl(value, shift) ==
    [k \in 1..10 |-> IF k # shift \div 7 + 1 THEN 0
                     ELSE IF k = 10 THEN value % 2 ELSE value]

\* value >> 7
U64Shr7(d) == [k \in 1..10 |-> IF k < 10 THEN d[k + 1] ELSE 0]

\* i64 from a small integer (two's complement)
I64FromInt(n) ==
    IF n >= 0 THEN U64FromNat(n)
    ELSE Let(U64FromNat(-n - 1), LAMBDA m :
             [k \in 1..10 |-> IF k = 10 THEN 1 ELSE 127 - m[k]])

I64_MAX == [k \in 1..10 |-> IF k = 10 THEN 0 ELSE 127]
I64_MIN == [k \in 1..10 |-> IF k = 10 THEN 1 ELSE 0]

\* zigzag_encode with a logical shift: ((n << 1) ^ ((n as u64 >> 63) as i64))
zigzag_encode_logical_shift(n) ==
    Let([k \in 1..10 |->
           IF k = 1 THEN (2 * n[1]) % 128
           ELSE IF k = 10 THEN n[9] \div 64
           ELSE ((2 * n[k]) % 128) + (n[k - 1] \div 64)], LAMBDA shl :
        [shl EXCEPT ![1] = shl[1] + n[10]])

\* ((n << 1) ^ (n >> 63)) as u64
zigzag_encode(n) ==
    Let([k \in 1..10 |->
           IF k = 1 THEN (2 * n[1]) % 128
           ELSE IF k = 10 THEN n[9] \div 64
           ELSE ((2 * n[k]) % 128) + (n[k - 1] \div 64)], LAMBDA shl :
        Let(n[10], LAMBDA sign :
        [k \in 1..10 |->
           IF sign = 0 THEN shl[k]
           ELSE IF k = 10 THEN 1 - shl[k] ELSE 127 - shl[k]]))

\* ((n >> 1) as i64) ^ (-((n & 1) as i64))
zigzag_decode(n) ==
    Let([k \in 1..10 |->
           IF k = 10 THEN 0
           ELSE (n[k] \div 2) + 64 * (IF k = 9 THEN n[10] ELSE n[k + 1] % 2)], LAMBDA shr :
        Let(n[1] % 2, LAMBDA low :
        [k \in 1..10 |->
           IF low = 0 THEN shr[k]
           ELSE IF k = 10 THEN 1 - shr[k] ELSE 127 - shr[k]]))

(***************************************************************************)
(* Reader (codec/primitives.rs).  A Reader is the slice d and the cursor   *)
(* p; a read returns [err, val, pos]: the error or the value and the       *)
(* cursor after the read.                                                  *)
(***************************************************************************)
RErr(e, p) == [err |-> e, val |-> Nil, pos |-> p]
RErrWith(e, info, p) == [err |-> e, val |-> info, pos |-> p]
ROk(v, p) == [err |-> NoErr, val |-> v, pos |-> p]

read_byte(d, p) ==
    IF p >= Len(d) THEN RErr("UnexpectedEof", p)
    ELSE ROk(d[p + 1], p + 1)

read_bytes(d, p, n) ==
    IF p + n > Len(d) THEN RErr("UnexpectedEof", p)
    ELSE ROk(SubSeq(d, p + 1, p + n), p + n)

read_id(d, p) == read_bytes(d, p, 16)

\* the payload bits the loop has or-ed into result after its passes 0..i:
\* pass j contributes (byte & 0x7F) << (7 * j)
read_varint_result(d, p, i) ==
    [k \in 1..10 |-> IF k <= i + 1 THEN U64Shl(d[p + k] % 128, 7 * (k - 1))[k] ELSE 0]

\* pass i of the loop of read_varint, entered after i continuation bytes
\* with the cursor at p + i and shift = 7 * i: what the pass returns, or
\* "continue" when the loop goes on to pass i + 1
read_varint_pass(d, p, i) ==
    Let(read_byte(d, p + i), LAMBDA rb :
        IF rb.err # NoErr THEN rb
        ELSE IF 7 * i >= 64 \/ (7 * i = 63 /\ rb.val % 128 > 1)
             THEN RErr("VarintOverflow", rb.pos)
        ELSE IF rb.val \div 128 = 0 THEN ROk(read_varint_result(d, p, i), rb.pos)
        ELSE IF i = MAX_VARINT_BYTES - 1 THEN RErr("VarintTooLong", rb.pos)
        ELSE RErr("continue", rb.pos))

\* a pass of the loop with the overflow check dropped: the shift at bit 63
\* silently loses the upper payload bits
read_varint_pass_unchecked(d, p, i) ==
    Let(read_byte(d, p + i), LAMBDA rb :
        IF rb.err # NoErr THEN rb
        ELSE IF rb.val \div 128 = 0 THEN ROk(read_varint_result(d, p, i), rb.pos)
        ELSE IF i = MAX_VARINT_BYTES - 1 THEN RErr("VarintTooLong", rb.pos)
        ELSE RErr("continue", rb.pos))

read_varint_wrapping(d, p) ==
    read_varint_pass_unchecked(d, p,
        CHOOSE i \in 0..(MAX_VARINT_BYTES - 1) :
            /\ read_varint_pass_unchecked(d, p, i).err # "continue"
            /\ \A j \in 0..(i - 1) : read_varint_pass_unchecked(d, p, j).err = "continue")

\* the first pass that returns; the last pass always does
read_varint(d, p) ==
    read_varint_pass(d, p,
        CHOOSE i \in 0..(MAX_VARINT_BYTES - 1) :
            /\ read_varint_pass(d, p, i).err # "continue"
            /\ \A j \in 0..(i - 1) : read_varint_pass(d, p, j).err = "continue")

read_signed_varint(d, p) ==
    Let(read_varint(d, p), LAMBDA r :
        IF r.err # NoErr THEN r ELSE ROk(zigzag_decode(r.val), r.pos))

(***************************************************************************)
(* Writer (codec/primitives.rs).  A write returns the bytes it appends.    *)
(***************************************************************************)
write_byte(b) == <<b>>

write_id(id) == id

RECURSIVE write_varint(_)
write_varint(value) ==
    Let(value[1], LAMBDA byte :
        Let(U64Shr7(value), LAMBDA rest :
        IF rest = U64Zero THEN <<byte>>
        ELSE <<byte + 128>> \o write_varint(rest)))

write_signed_varint(value) == write_varint(zigzag_encode(value))

write_string(s) == write_varint(U64FromNat(Len(s))) \o s

write_bytes_prefixed(bytes) == write_varint(U64FromNat(Len(bytes))) \o bytes

RECURSIVE Concat(_)
Concat(ss) == IF ss = <<>> THEN <<>> ELSE Head(ss) \o Concat(Tail(ss))

write_id_vec(ids) == write_varint(U64FromNat(Len(ids))) \o Concat(ids)

read_id_vec_loop(d, p, count) ==
    LET RECURSIVE go(_, _, _)
        go(q, k, ids) ==
            IF k = 0 THEN ROk(ids, q)
            ELSE Let(read_id(d, q), LAMBDA r :
                     IF r.err # NoErr THEN r ELSE go(r.pos, k - 1, Append(ids, r.val)))
    IN  go(p, count, <<>>)

read_id_vec(d, p, max_len) ==
    Let(read_varint(d, p), LAMBDA c :
        IF c.err # NoErr THEN c
        ELSE IF U64Gt(c.val, max_len) THEN RErr("LengthExceedsLimit", c.pos)
        ELSE read_id_vec_loop(d, c.pos, U64Small(c.val)))

\* the length of the well-formed UTF-8 sequence that starts at bs[k], or 0
Utf8Width(bs, k) ==
    LET Cont(i) == i <= Len(bs) /\ bs[i] >= 128 /\ bs[i] <= 191
        In(i, lo, hi) == i <= Len(bs) /\ bs[i] >= lo /\ bs[i] <= hi
        b == bs[k]
    IN  IF b < 128 THEN 1
        ELSE IF b >= 194 /\ b <= 223 THEN (IF Cont(k + 1) THEN 2 ELSE 0)
        ELSE IF b = 224 THEN (IF In(k + 1, 160, 191) /\ Cont(k + 2) THEN 3 ELSE 0)
        ELSE IF b = 237 THEN (IF In(k + 1, 128, 159) /\ Cont(k + 2) THEN 3 ELSE 0)
        ELSE IF b >= 225 /\ b <= 239 THEN (IF Cont(k + 1) /\ Cont(k + 2) THEN 3 ELSE 0)
        ELSE IF b = 240
             THEN (IF In(k + 1, 144, 191) /\ Cont(k + 2) /\ Cont(k + 3) THEN 4 ELSE 0)
        ELSE IF b >= 241 /\ b <= 243
             THEN (IF Cont(k + 1) /\ Cont(k + 2) /\ Cont(k + 3) THEN 4 ELSE 0)
        ELSE IF b = 244
             THEN (IF In(k + 1, 128, 143) /\ Cont(k + 2) /\ Cont(k + 3) THEN 4 ELSE 0)
        ELSE 0

\* std::str::from_utf8(bytes).is_ok(): every byte that is no continuation
\* byte starts a well-formed sequence, and every continuation byte lies in
\* the sequence started by one of the three bytes before it
IsUtf8(bs) ==
    \A k \in 1..Len(bs) :
        IF bs[k] >= 128 /\ bs[k] <= 191
        THEN \E j \in 1..(k - 1) : k - j <= 3 /\ Utf8Width(bs, j) > k - j
        ELSE Utf8Width(bs, k) > 0

read_string(d, p, max_len) ==
    Let(read_varint(d, p), LAMBDA c :
        IF c.err # NoErr THEN c
        ELSE IF U64Gt(c.val, max_len) THEN RErr("LengthExceedsLimit", c.pos)
        ELSE Let(read_bytes(d, c.pos, U64Small(c.val)), LAMBDA r :
                 IF r.err # NoErr THEN r
                 ELSE IF ~IsUtf8(r.val) THEN RErr("InvalidUtf8", r.pos)
                 ELSE r))

\* Reader::read_str: the borrowing form of read_string
read_str(d, p, max_len) == read_string(d, p, max_len)

(***************************************************************************)
(* Ids and their order ([u8; 16], compared bytewise)                       *)
(***************************************************************************)
SeqLess(a, b) ==
    \E i \in 1..Len(b) :
        /\ \A j \in 1..(i - 1) : j <= Len(a) /\ a[j] = b[j]
        /\ (i > Len(a) \/ a[i] < b[i])

\* slice::sort_by / sort on the key k of each element: a stable sort
RECURSIVE InsertByKey(_, _)
InsertByKey(sorted, e) ==
    IF sorted = <<>> THEN <<e>>
    ELSE IF SeqLess(e.k, Head(sorted).k) THEN <<e>> \o sorted
    ELSE <<Head(sorted)>> \o InsertByKey(Tail(sorted), e)

RECURSIVE SortByKey(_)
SortByKey(es) ==
    IF es = <<>> THEN <<>>
    ELSE InsertByKey(SortByKey(SubSeq(es, 1, Len(es) - 1)), es[Len(es)])

SortIds(ids) ==
    Let(SortByKey([i \in 1..Len(ids) |-> [k |-> ids[i], v |-> ids[i]]]), LAMBDA s :
        [i \in 1..Len(ids) |-> s[i].v])

(***************************************************************************)
(* DictionaryBuilder (model/edit.rs): the tables and their index maps      *)
(***************************************************************************)
EmptyMap == [x \in {} |-> 0]

DictionaryBuilder_new ==
    [properties |-> <<>>, property_indices |-> EmptyMap,
     relation_types |-> <<>>, relation_type_indices |-> EmptyMap,
     languages |-> <<>>, language_indices |-> EmptyMap,
     units |-> <<>>, unit_indices |-> EmptyMap,
     objects |-> <<>>, object_indices |-> EmptyMap,
     context_ids |-> <<>>, context_id_indices |-> EmptyMap,
     contexts |-> <<>>, context_indices |-> EmptyMap]

\* add_* without the lookup in the index map: the entry is always pushed
AddEntry_always_push(b, vec, map, key, entry) ==
    [b |-> [b EXCEPT ![vec] = Append(@, entry),
                     ![map] = (key :> Len(b[vec])) @@ @],
     idx |-> Len(b[vec])]

\* the shared body of the add_* methods: returns the builder and the index
AddEntry(b, vec, map, key, entry) ==
    IF key \in DOMAIN b[map] THEN [b |-> b, idx |-> b[map][key]]
    ELSE [b |-> [b EXCEPT ![vec] = Append(@, entry),
                          ![map] = @ @@ (key :> Len(b[vec]))],
          idx |-> Len(b[vec])]

add_property(b, id, data_type) ==
    AddEntry(b, "properties", "property_indices", id, <<id, data_type>>)

add_relation_type(b, id) == AddEntry(b, "relation_types", "relation_type_indices", id, id)

\* add_language returning the position in the vector for Some(id) as well
add_language_zero_based(b, id) ==
    IF id = None THEN [b |-> b, idx |-> 0]
    ELSE AddEntry(b, "languages", "language_indices", id, id)

add_language(b, id) ==
    IF id = None THEN [b |-> b, idx |-> 0]
    ELSE Let(AddEntry(b, "languages", "language_indices", id, id), LAMBDA r :
             [b |-> r.b, idx |-> r.idx + 1])

add_unit(b, id) ==
    IF id = None THEN [b |-> b, idx |-> 0]
    ELSE Let(AddEntry(b, "units", "unit_indices", id, id), LAMBDA r :
             [b |-> r.b, idx |-> r.idx + 1])

add_object(b, id) == AddEntry(b, "objects", "object_indices", id, id)

add_context_id(b, id) == AddEntry(b, "context_ids", "context_id_indices", id, id)

\* add_context_edges registering the type of each edge and not its target
RECURSIVE add_context_edges_types_only(_, _)
add_context_edges_types_only(b, edges) ==
    IF edges = <<>> THEN b
    ELSE add_context_edges_types_only(add_relation_type(b, Head(edges).type_id).b, Tail(edges))

RECURSIVE add_context_edges(_, _)
add_context_edges(b, edges) ==
    IF edges = <<>> THEN b
    ELSE Let(add_relation_type(b, Head(edges).type_id).b, LAMBDA b1 :
             Let(add_context_id(b1, Head(edges).to_entity_id).b, LAMBDA b2 :
             add_context_edges(b2, Tail(edges))))

add_context(b, context) ==
    IF context \in DOMAIN b.context_indices
    THEN [b |-> b, idx |-> b.context_indices[context]]
    ELSE Let(add_context_id(b, context.root_id).b, LAMBDA b1 :
             Let(add_context_edges(b1, context.edges), LAMBDA b2 :
             AddEntry(b2, "contexts", "context_indices", context, context)))

\* Option<usize> as -1 (None) or the index
get_property_index(b, id) ==
    IF id \in DOMAIN b.property_indices THEN b.property_indices[id] ELSE -1

get_language_index(b, id) ==
    IF id = None THEN 0
    ELSE IF id \in DOMAIN b.language_indices THEN b.language_indices[id] + 1
    ELSE -1

USize(n) == U64FromNat(n)

write_dictionaries(b) ==
    write_varint(USize(Len(b.properties)))
    \o Concat([i \in 1..Len(b.properties) |->
                  write_id(b.properties[i][1]) \o write_byte(b.properties[i][2])])
    \o write_id_vec(b.relation_types)
    \o write_id_vec(b.languages)
    \o write_id_vec(b.units)
    \o write_id_vec(b.objects)
    \o write_id_vec(b.context_ids)

write_contexts(b) ==
    LET edge(e) == write_varint(USize(b.relation_type_indices[e.type_id]))
                   \o write_varint(USize(b.context_id_indices[e.to_entity_id]))
        ctx(c) == write_varint(USize(b.context_id_indices[c.root_id]))
                  \o write_varint(USize(Len(c.edges)))
                  \o Concat([j \in 1..Len(c.edges) |-> edge(c.edges[j])])
    IN  write_varint(USize(Len(b.contexts)))
        \o Concat([i \in 1..Len(b.contexts) |-> ctx(b.contexts[i])])

validate_limits(b) ==
    IF Len(b.properties) > MAX_DICT_SIZE \/ Len(b.relation_types) > MAX_DICT_SIZE
       \/ Len(b.languages) > MAX_DICT_SIZE \/ Len(b.units) > MAX_DICT_SIZE
       \/ Len(b.objects) > MAX_DICT_SIZE \/ Len(b.context_ids) > MAX_DICT_SIZE
       \/ Len(b.contexts) > MAX_DICT_SIZE
       \/ \E i \in 1..Len(b.contexts) : Len(b.contexts[i].edges) > MAX_DICT_SIZE
    THEN "LengthExceedsLimit"
    ELSE NoErr

\* entries.iter().enumerate().map(|(i, e)| (key(e), i)).collect()
IndexMap(keys) ==
    [x \in {keys[i] : i \in 1..Len(keys)} |->
        (CHOOSE i \in 1..Len(keys) :
            keys[i] = x /\ \A j \in (i + 1)..Len(keys) : keys[j] # x) - 1]

ContextKey(c) ==
    c.root_id \o Concat([j \in 1..Len(c.edges) |->
                            c.edges[j].type_id \o c.edges[j].to_entity_id])

\* into_sorted with the vectors sorted and the index maps left as they were
into_sorted_stale_indices(b) ==
    [b EXCEPT !.properties = [i \in 1..Len(b.properties) |->
                                 SortByKey([j \in 1..Len(b.properties) |->
                                     [k |-> b.properties[j][1], v |-> b.properties[j]]])[i].v],
              !.relation_types = SortIds(@), !.languages = SortIds(@),
              !.units = SortIds(@), !.objects = SortIds(@), !.context_ids = SortIds(@),
              !.contexts = [i \in 1..Len(b.contexts) |->
                               SortByKey([j \in 1..Len(b.contexts) |->
                                   [k |-> ContextKey(b.contexts[j]), v |-> b.contexts[j]]])[i].v]]

into_sorted(b) ==
    Let(SortByKey([i \in 1..Len(b.properties) |->
                      [k |-> b.properties[i][1], v |-> b.properties[i]]]), LAMBDA sp :
        Let([i \in 1..Len(sp) |-> sp[i].v], LAMBDA properties :
        Let(SortByKey([i \in 1..Len(b.contexts) |->
                          [k |-> ContextKey(b.contexts[i]), v |-> b.contexts[i]]]), LAMBDA sc :
        Let([i \in 1..Len(sc) |-> sc[i].v], LAMBDA contexts :
        [properties |-> properties,
         property_indices |-> IndexMap([i \in 1..Len(properties) |-> properties[i][1]]),
         relation_types |-> SortIds(b.relation_types),
         relation_type_indices |-> IndexMap(SortIds(b.relation_types)),
         languages |-> SortIds(b.languages),
         language_indices |-> IndexMap(SortIds(b.languages)),
         units |-> SortIds(b.units),
         unit_indices |-> IndexMap(SortIds(b.units)),
         objects |-> SortIds(b.objects),
         object_indices |-> IndexMap(SortIds(b.objects)),
         context_ids |-> SortIds(b.context_ids),
         context_id_indices |-> IndexMap(SortIds(b.context_ids)),
         contexts |-> contexts,
         context_indices |-> IndexMap(contexts)]))))

(***************************************************************************)
(* Values (model/value.rs, codec/value.rs).  A Value is a record           *)
(* [dt, value, unit, language]: dt is the DataType tag, value the payload  *)
(* (Bool: <<0>> or <<1>>; Int64: the i64; Text, Bytes: the bytes), unit    *)
(* and language an Option<Id>.                                             *)
(***************************************************************************)
DT_Bool == 1
DT_Int64 == 2
DT_Float64 == 3
DT_Decimal == 4
DT_Text == 5
DT_Bytes == 6
DT_Date == 7
DT_Time == 8
DT_Datetime == 9
DT_Schedule == 10
DT_Point == 11
DT_Rect == 12
DT_Embedding == 13

DataType_from_u8(v) == IF v >= 1 /\ v <= 13 THEN v ELSE 0

\* EmbeddingSubType
Float32 == 0
Int8 == 1
Binary == 2

EmbeddingSubType_from_u8(v) == IF v \in {Float32, Int8, Binary} THEN <<v>> ELSE None

bytes_for_dims(sub_type, dims) ==
    CASE sub_type = Float32 -> dims * 4
      [] sub_type = Int8 -> dims
      [] sub_type = Binary -> (dims + 7) \div 8

ValueBool(v) == [dt |-> DT_Bool, value |-> <<IF v THEN 1 ELSE 0>>, unit |-> None, language |-> None]
ValueInt64(v, unit) == [dt |-> DT_Int64, value |-> v, unit |-> unit, language |-> None]
ValueText(v, language) == [dt |-> DT_Text, value |-> v, unit |-> None, language |-> language]
ValueBytes(v) == [dt |-> DT_Bytes, value |-> v, unit |-> None, language |-> None]
\* an f64 or f32 is its little-endian bytes
ValueFloat64(v, unit) == [dt |-> DT_Float64, value |-> v, unit |-> unit, language |-> None]
\* exponent is an i32 (an integer), mantissa is I64Mantissa or BigMantissa
ValueDecimal(exponent, mantissa, unit) ==
    [dt |-> DT_Decimal, value |-> [exponent |-> exponent, mantissa |-> mantissa],
     unit |-> unit, language |-> None]
I64Mantissa(v) == [kind |-> "I64", v |-> v]
BigMantissa(bytes) == [kind |-> "Big", v |-> bytes]
\* days: i32, offset_min: i16 (integers); time_us, epoch_us: i64
ValueDate(days, offset_min) ==
    [dt |-> DT_Date, value |-> [days |-> days, offset_min |-> offset_min],
     unit |-> None, language |-> None]
ValueTime(time_us, offset_min) ==
    [dt |-> DT_Time, value |-> [time_us |-> time_us, offset_min |-> offset_min],
     unit |-> None, language |-> None]
ValueDatetime(epoch_us, offset_min) ==
    [dt |-> DT_Datetime, value |-> [epoch_us |-> epoch_us, offset_min |-> offset_min],
     unit |-> None, language |-> None]
ValueSchedule(s) == [dt |-> DT_Schedule, value |-> s, unit |-> None, language |-> None]
\* alt is an Option<f64>: <<>> or <<f>>
ValuePoint(lat, lon, alt) ==
    [dt |-> DT_Point, value |-> [lat |-> lat, lon |-> lon, alt |-> alt],
     unit |-> None, language |-> None]
ValueRect(min_lat, min_lon, max_lat, max_lon) ==
    [dt |-> DT_Rect,
     value |-> [min_lat |-> min_lat, min_lon |-> min_lon, max_lat |-> max_lat, max_lon |-> max_lon],
     unit |-> None, language |-> None]
ValueEmbedding(sub_type, dims, bytes) ==
    [dt |-> DT_Embedding, value |-> [sub_type |-> sub_type, dims |-> dims, data |-> bytes],
     unit |-> None, language |-> None]

data_type(value) == value.dt

(***************************************************************************)
(* Floats and fixed-width integers as little-endian bytes                  *)
(***************************************************************************)
\* f64::is_nan: exponent bits all ones and a non-zero fraction
f64_is_nan(f) ==
    /\ f[8] % 128 = 127
    /\ f[7] \div 16 = 15
    /\ (f[7] % 16 # 0 \/ \E k \in 1..6 : f[k] # 0)

\* f32::is_nan
f32_is_nan(f) ==
    /\ f[4] % 128 = 127
    /\ f[3] \div 128 = 1
    /\ (f[3] % 128 # 0 \/ f[1] # 0 \/ f[2] # 0)

\* the magnitude of an f64, most significant byte first: for floats that
\* are not NaN, |a| < |b| iff Magnitude(a) is before Magnitude(b)
Magnitude(f) == [k \in 1..8 |-> IF k = 1 THEN f[8] % 128 ELSE f[9 - k]]

\* 90.0 and 180.0
F64_90 == <<0, 0, 0, 0, 0, 128, 86, 64>>
F64_180 == <<0, 0, 0, 0, 0, 128, 102, 64>>

\* x < -limit || x > limit, false for a NaN
f64_outside(f, limit) == ~f64_is_nan(f) /\ SeqLess(Magnitude(limit), Magnitude(f))

\* read_f64 without the is_nan test: the eight bytes as they are
read_f64_unchecked(d, p) == read_bytes(d, p, 8)

\* read_f64: the NaN check is part of the read
read_f64(d, p) ==
    Let(read_bytes(d, p, 8), LAMBDA r :
        IF r.err # NoErr THEN r
        ELSE IF f64_is_nan(r.val) THEN RErr("FloatIsNan", r.pos)
        ELSE r)

write_f64(value) == value

\* n.to_le_bytes() for an integer of w bytes (two's complement)
RECURSIVE NatToLeBytes(_, _)
NatToLeBytes(n, w) == IF w = 0 THEN <<>> ELSE <<n % 256>> \o NatToLeBytes(n \div 256, w - 1)

IntToLeBytes(n, w) ==
    IF n >= 0 THEN NatToLeBytes(n, w)
    ELSE Let(NatToLeBytes(-n - 1, w), LAMBDA m : [k \in 1..w |-> 255 - m[k]])

\* i16::from_le_bytes, i32::from_le_bytes
I16FromLeBytes(b) ==
    IF b[2] >= 128 THEN b[1] + 256 * b[2] - 65536 ELSE b[1] + 256 * b[2]

I32FromLeBytes(b) ==
    IF b[4] >= 128
    THEN b[1] + 256 * b[2] + 65536 * b[3] + 16777216 * (b[4] - 256)
    ELSE b[1] + 256 * b[2] + 65536 * b[3] + 16777216 * b[4]

\* u64::to_le_bytes and u64::from_le_bytes on the base-128 digits
U64ToLeBytes(d) ==
    [j \in 1..8 |->
        Let((8 * (j - 1)) \div 7 + 1, LAMBDA a :
        Let((8 * (j - 1)) % 7, LAMBDA r :
        ((d[a] \div (2 ^ r)) + (IF a < 10 THEN d[a + 1] * (2 ^ (7 - r)) ELSE 0)) % 256))]

U64FromLeBytes(b) ==
    [k \in 1..10 |->
        Let((7 * (k - 1)) \div 8 + 1, LAMBDA a :
        Let((7 * (k - 1)) % 8, LAMBDA r :
        ((b[a] \div (2 ^ r)) + (IF a < 8 THEN b[a + 1] * (2 ^ (8 - r)) ELSE 0)) % 128))]

\* `x as i32` of an i64: the low 32 bits, signed
I64AsI32(d) ==
    d[1] + 128 * d[2] + 16384 * d[3] + 2097152 * d[4]
    + 268435456 * (IF d[5] % 16 >= 8 THEN (d[5] % 16) - 16 ELSE d[5] % 16)

\* a < b for two u64
U64Lt(a, b) == SeqLess([k \in 1..10 |-> a[11 - k]], [k \in 1..10 |-> b[11 - k]])

U64_MAX == [k \in 1..10 |-> IF k = 10 THEN 1 ELSE 127]

\* Reader::read_bytes called with a length just read from the input (a u64
\* cast to usize): self.pos + n overflows when n > usize::MAX - pos, which
\* panics with overflow checks on and otherwise wraps to a value below pos,
\* passes the test against data.len() and panics at the slice pos..pos + n
read_bytes_usize(d, p, n) ==
    IF U64Lt([k \in 1..10 |-> U64_MAX[k] - U64FromNat(p)[k]], n) THEN RErr("panic", p)
    ELSE IF U64Small(n) = -1 THEN RErr("UnexpectedEof", p)
    ELSE read_bytes(d, p, U64Small(n))

\* 86_399_999_999
TIME_US_MAX == <<127, 63, 93, 110, 65, 2, 0, 0, 0, 0>>

\* offset_min < -1440 || offset_min > 1440
offset_out_of_range(offset_min) == offset_min < -1440 \/ offset_min > 1440

\* time_us < 0 || time_us > 86_399_999_999 for an i64
time_us_out_of_range(time_us) == time_us[10] = 1 \/ U64Lt(TIME_US_MAX, time_us)

(***************************************************************************)
(* Decimal normalization (codec/value.rs)                                  *)
(***************************************************************************)
is_big_mantissa_zero(bytes) == \A k \in 1..Len(bytes) : bytes[k] = 0

RECURSIVE BytesMod10(_, _, _, _)
BytesMod10(bytes, k, remainder, inverted) ==
    IF k > Len(bytes) THEN remainder
    ELSE BytesMod10(bytes, k + 1,
                    (remainder * 6 + (IF inverted THEN 255 - bytes[k] ELSE bytes[k])) % 10,
                    inverted)

\* twos_complement_abs_mod_10 without the 1 added after the inversion
twos_complement_abs_mod_10_inverted_only(bytes) == BytesMod10(bytes, 1, 0, TRUE)

twos_complement_abs_mod_10(bytes) == (BytesMod10(bytes, 1, 0, TRUE) + 1) % 10

is_big_mantissa_divisible_by_10(bytes) ==
    IF bytes = <<>> THEN TRUE
    ELSE IF bytes[1] >= 128 THEN twos_complement_abs_mod_10(bytes) = 0
    ELSE BytesMod10(bytes, 1, 0, FALSE) = 0

\* v % 10 == 0 for an i64: 128^k mod 10 is 1, 8, 4, 2, 6, 8, 4, 2, 6, 8 and
\* 2^64 mod 10 is 6
I64DivisibleBy10(v) ==
    Let(<<1, 8, 4, 2, 6, 8, 4, 2, 6, 8>>, LAMBDA w :
    Let((v[1] * w[1] + v[2] * w[2] + v[3] * w[3] + v[4] * w[4] + v[5] * w[5]
         + v[6] * w[6] + v[7] * w[7] + v[8] * w[8] + v[9] * w[9] + v[10] * w[10]) % 10,
        LAMBDA u :
    IF v[10] = 1 THEN u = 6 ELSE u = 0))

\* the normalization test shared by encode_decimal and decode_decimal
decimal_not_normalized(exponent, mantissa) ==
    IF mantissa.kind = "I64"
    THEN IF mantissa.v = U64Zero THEN exponent # 0 ELSE I64DivisibleBy10(mantissa.v)
    ELSE IF is_big_mantissa_zero(mantissa.v) THEN exponent # 0
         ELSE is_big_mantissa_divisible_by_10(mantissa.v)

EOk(bytes, b) == [err |-> NoErr, bytes |-> bytes, b |-> b, val |-> Nil]
EErr(e, info) == [err |-> e, bytes |-> <<>>, b |-> Nil, val |-> info]

encode_decimal(exponent, mantissa) ==
    IF decimal_not_normalized(exponent, mantissa) THEN EErr("DecimalNotNormalized", Nil)
    ELSE EOk(write_signed_varint(I64FromInt(exponent))
             \o (IF mantissa.kind = "I64"
                 THEN write_byte(0) \o write_signed_varint(mantissa.v)
                 ELSE write_byte(1) \o write_varint(USize(Len(mantissa.v))) \o mantissa.v),
             Nil)

\* the first four-byte chunk of data, from chunk k on, that is a NaN
RECURSIVE has_nan_f32(_, _)
has_nan_f32(bytes, k) ==
    IF 4 * k > Len(bytes) THEN FALSE
    ELSE f32_is_nan(SubSeq(bytes, 4 * k - 3, 4 * k)) \/ has_nan_f32(bytes, k + 1)

encode_point(v) ==
    IF f64_outside(v.lat, F64_90) THEN EErr("LatitudeOutOfRange", v.lat)
    ELSE IF f64_outside(v.lon, F64_180) THEN EErr("LongitudeOutOfRange", v.lon)
    ELSE IF f64_is_nan(v.lat) \/ f64_is_nan(v.lon) THEN EErr("FloatIsNan", Nil)
    ELSE IF v.alt # <<>> /\ f64_is_nan(v.alt[1]) THEN EErr("FloatIsNan", Nil)
    ELSE EOk(write_byte(IF v.alt # <<>> THEN 3 ELSE 2) \o write_f64(v.lat) \o write_f64(v.lon)
             \o (IF v.alt # <<>> THEN write_f64(v.alt[1]) ELSE <<>>), Nil)

encode_rect(v) ==
    IF f64_outside(v.min_lat, F64_90) \/ f64_outside(v.max_lat, F64_90)
    THEN EErr("LatitudeOutOfRange",
              IF f64_outside(v.min_lat, F64_90) THEN v.min_lat ELSE v.max_lat)
    ELSE IF f64_outside(v.min_lon, F64_180) \/ f64_outside(v.max_lon, F64_180)
    THEN EErr("LongitudeOutOfRange",
              IF f64_outside(v.min_lon, F64_180) THEN v.min_lon ELSE v.max_lon)
    ELSE IF f64_is_nan(v.min_lat) \/ f64_is_nan(v.min_lon)
            \/ f64_is_nan(v.max_lat) \/ f64_is_nan(v.max_lon)
    THEN EErr("FloatIsNan", Nil)
    ELSE EOk(write_f64(v.min_lat) \o write_f64(v.min_lon)
             \o write_f64(v.max_lat) \o write_f64(v.max_lon), Nil)

encode_embedding(v) ==
    IF Len(v.data) # bytes_for_dims(v.sub_type, v.dims)
    THEN EErr("EmbeddingDimensionMismatch", Nil)
    ELSE IF v.sub_type = Float32 /\ has_nan_f32(v.data, 1) THEN EErr("FloatIsNan", Nil)
    ELSE EOk(write_byte(v.sub_type) \o write_varint(USize(v.dims)) \o v.data, Nil)

\* the arms of encode_value that use no dictionary
encode_plain_value(value) ==
    CASE value.dt = DT_Bool -> EOk(write_byte(value.value[1]), Nil)
      [] value.dt = DT_Bytes -> EOk(write_bytes_prefixed(value.value), Nil)
      [] value.dt = DT_Date ->
            IF offset_out_of_range(value.value.offset_min) THEN EErr("InvalidInput", "DATE")
            ELSE EOk(IntToLeBytes(value.value.days, 4)
                     \o IntToLeBytes(value.value.offset_min, 2), Nil)
      [] value.dt = DT_Time ->
            IF time_us_out_of_range(value.value.time_us) THEN EErr("InvalidInput", "TIME")
            ELSE IF offset_out_of_range(value.value.offset_min)
            THEN EErr("InvalidInput", "TIME")
            ELSE EOk(SubSeq(U64ToLeBytes(value.value.time_us), 1, 6)
                     \o IntToLeBytes(value.value.offset_min, 2), Nil)
      [] value.dt = DT_Datetime ->
            IF offset_out_of_range(value.value.offset_min)
            THEN EErr("InvalidInput", "DATETIME")
            ELSE EOk(U64ToLeBytes(value.value.epoch_us)
                     \o IntToLeBytes(value.value.offset_min, 2), Nil)
      [] value.dt = DT_Schedule -> EOk(write_string(value.value), Nil)
      [] value.dt = DT_Point -> encode_point(value.value)
      [] value.dt = DT_Rect -> encode_rect(value.value)
      [] value.dt = DT_Embedding -> encode_embedding(value.value)

encode_value(value, b) ==
    CASE value.dt = DT_Int64 ->
            Let(add_unit(b, value.unit), LAMBDA u :
                EOk(write_signed_varint(value.value) \o write_varint(USize(u.idx)), u.b))
      [] value.dt = DT_Float64 ->
            IF f64_is_nan(value.value) THEN EErr("FloatIsNan", Nil)
            ELSE Let(add_unit(b, value.unit), LAMBDA u :
                     EOk(write_f64(value.value) \o write_varint(USize(u.idx)), u.b))
      [] value.dt = DT_Decimal ->
            Let(encode_decimal(value.value.exponent, value.value.mantissa), LAMBDA m :
                IF m.err # NoErr THEN m
                ELSE Let(add_unit(b, value.unit), LAMBDA u :
                         EOk(m.bytes \o write_varint(USize(u.idx)), u.b)))
      [] value.dt = DT_Text ->
            Let(add_language(b, value.language), LAMBDA l :
                EOk(write_string(value.value) \o write_varint(USize(l.idx)), l.b))
      [] OTHER ->
            Let(encode_plain_value(value), LAMBDA r :
                IF r.err # NoErr THEN r ELSE EOk(r.bytes, b))

encode_property_value(pv, b, dt) ==
    Let(add_property(b, pv.property, dt), LAMBDA p :
        Let(encode_value(pv.value, p.b), LAMBDA v :
        IF v.err # NoErr THEN v
        ELSE EOk(write_varint(USize(p.idx)) \o v.bytes, v.b)))

\* the index after a 1-based Option index (unit, language): 0 is None
decode_opt_ref(d, p, table) ==
    Let(read_varint(d, p), LAMBDA r :
        IF r.err # NoErr THEN r
        ELSE IF r.val = U64Zero THEN ROk(None, r.pos)
        ELSE IF U64Small(r.val) = -1 \/ U64Small(r.val) - 1 >= Len(table)
             THEN RErr("IndexOutOfBounds", r.pos)
        ELSE ROk(table[U64Small(r.val)], r.pos))

decode_bool(d, p) ==
    Let(read_byte(d, p), LAMBDA r :
        IF r.err # NoErr THEN r
        ELSE IF r.val \in {0, 1} THEN ROk(ValueBool(r.val = 1), r.pos)
        ELSE [err |-> "InvalidBool", val |-> r.val, pos |-> r.pos])

decode_int64(d, p, dicts) ==
    Let(read_signed_varint(d, p), LAMBDA v :
        IF v.err # NoErr THEN v
        ELSE Let(decode_opt_ref(d, v.pos, dicts.units), LAMBDA u :
                 IF u.err # NoErr THEN u ELSE ROk(ValueInt64(v.val, u.val), u.pos)))

decode_text(d, p, dicts) ==
    Let(read_str(d, p, MAX_STRING_LEN), LAMBDA v :
        IF v.err # NoErr THEN v
        ELSE Let(decode_opt_ref(d, v.pos, dicts.languages), LAMBDA l :
                 IF l.err # NoErr THEN l ELSE ROk(ValueText(v.val, l.val), l.pos)))

decode_bytes(d, p) ==
    Let(read_varint(d, p), LAMBDA c :
        IF c.err # NoErr THEN c
        ELSE IF U64Gt(c.val, MAX_BYTES_LEN) THEN RErr("LengthExceedsLimit", c.pos)
        ELSE Let(read_bytes(d, c.pos, U64Small(c.val)), LAMBDA r :
                 IF r.err # NoErr THEN r ELSE ROk(ValueBytes(r.val), r.pos)))

decode_float64(d, p, dicts) ==
    Let(read_f64(d, p), LAMBDA v :
        IF v.err # NoErr THEN v
        ELSE Let(decode_opt_ref(d, v.pos, dicts.units), LAMBDA u :
                 IF u.err # NoErr THEN u ELSE ROk(ValueFloat64(v.val, u.val), u.pos)))

\* the mantissa of decode_decimal: the I64 form, or the Big form with its
\* minimal-length test
decode_mantissa(d, p) ==
    Let(read_byte(d, p), LAMBDA t :
        IF t.err # NoErr THEN t
        ELSE IF t.val = 0
        THEN Let(read_signed_varint(d, t.pos), LAMBDA v :
                 IF v.err # NoErr THEN v ELSE ROk(I64Mantissa(v.val), v.pos))
        ELSE IF t.val = 1
        THEN Let(read_varint(d, t.pos), LAMBDA len :
                 IF len.err # NoErr THEN len
                 ELSE Let(read_bytes_usize(d, len.pos, len.val), LAMBDA bytes :
                      IF bytes.err # NoErr THEN bytes
                      ELSE IF Len(bytes.val) > 1
                              /\ \/ (bytes.val[1] = 0 /\ bytes.val[2] < 128)
                                 \/ (bytes.val[1] = 255 /\ bytes.val[2] >= 128)
                      THEN RErr("DecimalMantissaNotMinimal", bytes.pos)
                      ELSE ROk(BigMantissa(bytes.val), bytes.pos)))
        ELSE RErrWith("MalformedEncoding", "invalid decimal mantissa type", t.pos))

decode_decimal(d, p, dicts) ==
    Let(read_signed_varint(d, p), LAMBDA e :
        IF e.err # NoErr THEN e
        ELSE Let(decode_mantissa(d, e.pos), LAMBDA m :
             IF m.err # NoErr THEN m
             ELSE IF decimal_not_normalized(I64AsI32(e.val), m.val)
             THEN RErr("DecimalNotNormalized", m.pos)
             ELSE Let(decode_opt_ref(d, m.pos, dicts.units), LAMBDA u :
                  IF u.err # NoErr THEN u
                  ELSE ROk(ValueDecimal(I64AsI32(e.val), m.val, u.val), u.pos))))

decode_date(d, p) ==
    Let(read_bytes(d, p, 6), LAMBDA r :
        IF r.err # NoErr THEN r
        ELSE IF offset_out_of_range(I16FromLeBytes(SubSeq(r.val, 5, 6)))
        THEN RErrWith("MalformedEncoding", "DATE", r.pos)
        ELSE ROk(ValueDate(I32FromLeBytes(SubSeq(r.val, 1, 4)),
                           I16FromLeBytes(SubSeq(r.val, 5, 6))), r.pos))

\* the int48 is sign-extended to an i64
decode_time(d, p) ==
    Let(read_bytes(d, p, 8), LAMBDA r :
        IF r.err # NoErr THEN r
        ELSE Let(U64FromLeBytes(SubSeq(r.val, 1, 6)
                                \o (IF r.val[6] >= 128 THEN <<255, 255>> ELSE <<0, 0>>)),
                 LAMBDA time_us :
             IF time_us_out_of_range(time_us) THEN RErrWith("MalformedEncoding", "TIME", r.pos)
             ELSE IF offset_out_of_range(I16FromLeBytes(SubSeq(r.val, 7, 8)))
             THEN RErrWith("MalformedEncoding", "TIME", r.pos)
             ELSE ROk(ValueTime(time_us, I16FromLeBytes(SubSeq(r.val, 7, 8))), r.pos)))

decode_datetime(d, p) ==
    Let(read_bytes(d, p, 10), LAMBDA r :
        IF r.err # NoErr THEN r
        ELSE IF offset_out_of_range(I16FromLeBytes(SubSeq(r.val, 9, 10)))
        THEN RErrWith("MalformedEncoding", "DATETIME", r.pos)
        ELSE ROk(ValueDatetime(U64FromLeBytes(SubSeq(r.val, 1, 8)),
                               I16FromLeBytes(SubSeq(r.val, 9, 10))), r.pos))

decode_schedule(d, p) ==
    Let(read_str(d, p, MAX_STRING_LEN), LAMBDA v :
        IF v.err # NoErr THEN v ELSE ROk(ValueSchedule(v.val), v.pos))

decode_point(d, p) ==
    Let(read_byte(d, p), LAMBDA c :
        IF c.err # NoErr THEN c
        ELSE IF c.val # 2 /\ c.val # 3 THEN RErrWith("MalformedEncoding", "POINT", c.pos)
        ELSE Let(read_f64(d, c.pos), LAMBDA lat :
             IF lat.err # NoErr THEN lat
             ELSE Let(read_f64(d, lat.pos), LAMBDA lon :
                  IF lon.err # NoErr THEN lon
                  ELSE Let(IF c.val = 3 THEN read_f64(d, lon.pos) ELSE ROk(Nil, lon.pos),
                           LAMBDA alt :
                       IF alt.err # NoErr THEN alt
                       ELSE IF f64_is_nan(lat.val) \/ f64_outside(lat.val, F64_90)
                       THEN RErr("LatitudeOutOfRange", alt.pos)
                       ELSE IF f64_is_nan(lon.val) \/ f64_outside(lon.val, F64_180)
                       THEN RErr("LongitudeOutOfRange", alt.pos)
                       ELSE IF c.val = 3 /\ f64_is_nan(alt.val) THEN RErr("FloatIsNan", alt.pos)
                       ELSE ROk(ValuePoint(lat.val, lon.val,
                                           IF c.val = 3 THEN <<alt.val>> ELSE <<>>),
                                alt.pos)))))

\* !(-limit..=limit).contains(&x): true for a NaN
not_contains(f, limit) == f64_is_nan(f) \/ f64_outside(f, limit)

decode_rect(d, p) ==
    Let(read_f64(d, p), LAMBDA min_lat :
        IF min_lat.err # NoErr THEN min_lat
        ELSE Let(read_f64(d, min_lat.pos), LAMBDA min_lon :
        IF min_lon.err # NoErr THEN min_lon
        ELSE Let(read_f64(d, min_lon.pos), LAMBDA max_lat :
        IF max_lat.err # NoErr THEN max_lat
        ELSE Let(read_f64(d, max_lat.pos), LAMBDA max_lon :
        IF max_lon.err # NoErr THEN max_lon
        ELSE IF not_contains(min_lat.val, F64_90) \/ not_contains(max_lat.val, F64_90)
        THEN RErr("LatitudeOutOfRange", max_lon.pos)
        ELSE IF not_contains(min_lon.val, F64_180) \/ not_contains(max_lon.val, F64_180)
        THEN RErr("LongitudeOutOfRange", max_lon.pos)
        ELSE IF f64_is_nan(min_lat.val) \/ f64_is_nan(min_lon.val)
                \/ f64_is_nan(max_lat.val) \/ f64_is_nan(max_lon.val)
        THEN RErr("FloatIsNan", max_lon.pos)
        ELSE ROk(ValueRect(min_lat.val, min_lon.val, max_lat.val, max_lon.val),
                 max_lon.pos)))))

decode_embedding(d, p) ==
    Let(read_byte(d, p), LAMBDA s :
        IF s.err # NoErr THEN s
        ELSE IF EmbeddingSubType_from_u8(s.val) = None
        THEN RErrWith("InvalidEmbeddingSubType", s.val, s.pos)
        ELSE Let(read_varint(d, s.pos), LAMBDA dims :
        IF dims.err # NoErr THEN dims
        ELSE IF U64Gt(dims.val, MAX_EMBEDDING_DIMS)
        THEN RErrWith("LengthExceedsLimit", "embedding.dims", dims.pos)
        ELSE IF bytes_for_dims(s.val, U64Small(dims.val)) > MAX_EMBEDDING_BYTES
        THEN RErrWith("LengthExceedsLimit", "embedding.data", dims.pos)
        ELSE Let(read_bytes(d, dims.pos, bytes_for_dims(s.val, U64Small(dims.val))),
                 LAMBDA body :
        IF body.err # NoErr THEN body
        ELSE IF s.val = Float32 /\ has_nan_f32(body.val, 1) THEN RErr("FloatIsNan", body.pos)
        ELSE IF s.val = Binary /\ U64Small(dims.val) % 8 # 0
                /\ body.val[Len(body.val)] \div (2 ^ (U64Small(dims.val) % 8)) # 0
        THEN RErrWith("MalformedEncoding", "binary embedding", body.pos)
        ELSE ROk(ValueEmbedding(s.val, U64Small(dims.val), body.val), body.pos))))

decode_value(d, p, dt, dicts) ==
    CASE dt = DT_Bool -> decode_bool(d, p)
      [] dt = DT_Int64 -> decode_int64(d, p, dicts)
      [] dt = DT_Float64 -> decode_float64(d, p, dicts)
      [] dt = DT_Decimal -> decode_decimal(d, p, dicts)
      [] dt = DT_Text -> decode_text(d, p, dicts)
      [] dt = DT_Bytes -> decode_bytes(d, p)
      [] dt = DT_Date -> decode_date(d, p)
      [] dt = DT_Time -> decode_time(d, p)
      [] dt = DT_Datetime -> decode_datetime(d, p)
      [] dt = DT_Schedule -> decode_schedule(d, p)
      [] dt = DT_Point -> decode_point(d, p)
      [] dt = DT_Rect -> decode_rect(d, p)
      [] dt = DT_Embedding -> decode_embedding(d, p)

\* an index read as `read_varint()? as usize` and checked against a table
read_index(d, p, table) ==
    Let(read_varint(d, p), LAMBDA r :
        IF r.err # NoErr THEN r
        ELSE IF U64Small(r.val) = -1 \/ U64Small(r.val) >= Len(table)
             THEN RErr("IndexOutOfBounds", r.pos)
        ELSE ROk(table[U64Small(r.val) + 1], r.pos))

decode_property_value(d, p, dicts) ==
    Let(read_index(d, p, dicts.properties), LAMBDA i :
        IF i.err # NoErr THEN i
        ELSE Let(decode_value(d, i.pos, i.val[2], dicts), LAMBDA v :
                 IF v.err # NoErr THEN v
                 ELSE ROk([property |-> i.val[1], value |-> v.val], v.pos)))

(***************************************************************************)
(* Ops (model/op.rs) and their encoders (codec/op.rs).  An Op is a record  *)
(* with the tag op and the fields of its kind; an Option<Id> is None or    *)
(* the id, an Option<String> is <<>> or <<s>>.                             *)
(***************************************************************************)
OP_CREATE_ENTITY == 1
OP_UPDATE_ENTITY == 2
OP_DELETE_ENTITY == 3
OP_RESTORE_ENTITY == 4
OP_CREATE_RELATION == 5
OP_UPDATE_RELATION == 6
OP_DELETE_RELATION == 7
OP_RESTORE_RELATION == 8
OP_CREATE_VALUE_REF == 9

UPDATE_ENTITY_RESERVED_MASK == 252
CREATE_VALUE_REF_RESERVED_MASK == 252
UPDATE_SET_RESERVED_MASK == 224
UPDATE_UNSET_RESERVED_MASK == 224

UnsetRelationFields == <<"FromSpace", "FromVersion", "ToSpace", "ToVersion", "Position">>

\* bit k (0-based) of a flag byte
Bit(k) == 2 ^ k
HasBit(flags, k) == (flags \div Bit(k)) % 2 = 1
Flag(cond, k) == IF cond THEN Bit(k) ELSE 0

CreateEntity(id, values, context) ==
    [op |-> OP_CREATE_ENTITY, id |-> id, values |-> values, context |-> context]
UpdateEntity(id, set_properties, unset_values, context) ==
    [op |-> OP_UPDATE_ENTITY, id |-> id, set_properties |-> set_properties,
     unset_values |-> unset_values, context |-> context]
IdOp(tag, id) == [op |-> tag, id |-> id, context |-> None]
UpdateRelation(id, from_space, from_version, to_space, to_version, position, unset) ==
    [op |-> OP_UPDATE_RELATION, id |-> id, from_space |-> from_space,
     from_version |-> from_version, to_space |-> to_space, to_version |-> to_version,
     position |-> position, unset |-> unset, context |-> None]
CreateValueRef(id, entity, property, language, space) ==
    [op |-> OP_CREATE_VALUE_REF, id |-> id, entity |-> entity, property |-> property,
     language |-> language, space |-> space]

IsAlnum(c) == (c >= 48 /\ c <= 57) \/ (c >= 65 /\ c <= 90) \/ (c >= 97 /\ c <= 122)

validate_position(pos) ==
    IF Len(pos) > MAX_POSITION_LEN THEN "PositionTooLong"
    ELSE IF \E i \in 1..Len(pos) : ~IsAlnum(pos[i]) THEN "InvalidPositionChar"
    ELSE NoErr

OptId(x) == IF x = None THEN <<>> ELSE write_id(x)

RECURSIVE encode_values(_, _, _)
encode_values(pvs, b, acc) ==
    IF pvs = <<>> THEN EOk(acc, b)
    ELSE Let(encode_property_value(Head(pvs), b, data_type(Head(pvs).value)), LAMBDA r :
             IF r.err # NoErr THEN r
             ELSE encode_values(Tail(pvs), r.b, acc \o r.bytes))

RECURSIVE encode_unsets(_, _, _)
encode_unsets(us, b, acc) ==
    IF us = <<>> THEN EOk(acc, b)
    ELSE Let(Head(us), LAMBDA u :
             Let(add_property(b, u.property, DT_Bool), LAMBDA p :
             Let( IF u.language.kind = "Specific" THEN add_language(p.b, u.language.id)
                  ELSE [b |-> p.b, idx |-> 0], LAMBDA l :
             Let(IF u.language.kind = "All" THEN SENTINEL ELSE USize(l.idx), LAMBDA lang_value :
             encode_unsets(Tail(us), l.b,
                           acc \o write_varint(USize(p.idx)) \o write_varint(lang_value))))))

encode_create_entity(ce, b) ==
    Let(encode_values(ce.values, b, <<>>), LAMBDA vs :
        IF vs.err # NoErr THEN vs
        ELSE EOk(write_byte(OP_CREATE_ENTITY) \o write_id(ce.id)
                 \o write_varint(USize(Len(ce.values))) \o vs.bytes, vs.b))

encode_update_entity(ue, b) ==
    Let(add_object(b, ue.id), LAMBDA o :
        Let(Flag(ue.set_properties # <<>>, 0) + Flag(ue.unset_values # <<>>, 1), LAMBDA flags :
        Let(IF ue.set_properties = <<>> THEN EOk(<<>>, o.b)
            ELSE encode_values(ue.set_properties, o.b,
                               write_varint(USize(Len(ue.set_properties)))), LAMBDA sets :
        Let(IF ue.unset_values = <<>> THEN EOk(<<>>, sets.b)
            ELSE encode_unsets(ue.unset_values, sets.b,
                               write_varint(USize(Len(ue.unset_values)))), LAMBDA unsets :
        IF sets.err # NoErr THEN sets
        ELSE EOk(write_byte(OP_UPDATE_ENTITY) \o write_varint(USize(o.idx))
                 \o write_byte(flags) \o sets.bytes \o unsets.bytes, unsets.b)))))

\* encode_delete_entity, encode_restore_entity, encode_delete_relation,
\* encode_restore_relation: the tag and the ObjectRef of the id
encode_id_op(op, b) ==
    Let(add_object(b, op.id), LAMBDA o :
        EOk(write_byte(op.op) \o write_varint(USize(o.idx)), o.b))

encode_create_relation(cr, b) ==
    Let(add_relation_type(b, cr.relation_type), LAMBDA t :
        Let(Flag(cr.from_space # None, 0) + Flag(cr.from_version # None, 1)
            + Flag(cr.to_space # None, 2) + Flag(cr.to_version # None, 3)
            + Flag(cr.entity # None, 4) + Flag(cr.position # <<>>, 5)
            + Flag(cr.from_is_value_ref, 6) + Flag(cr.to_is_value_ref, 7), LAMBDA flags :
        Let(IF cr.from_is_value_ref THEN [b |-> t.b, idx |-> 0] ELSE add_object(t.b, cr.from), LAMBDA f :
        Let(IF cr.from_is_value_ref THEN write_id(cr.from) ELSE write_varint(USize(f.idx)), LAMBDA from :
        Let(IF cr.to_is_value_ref THEN [b |-> f.b, idx |-> 0] ELSE add_object(f.b, cr.to), LAMBDA g :
        Let(IF cr.to_is_value_ref THEN write_id(cr.to) ELSE write_varint(USize(g.idx)), LAMBDA to :
        Let(IF cr.position = <<>> THEN NoErr ELSE validate_position(cr.position[1]), LAMBDA perr :
        IF perr # NoErr THEN EErr(perr, Nil)
        ELSE EOk(write_byte(OP_CREATE_RELATION) \o write_id(cr.id)
                 \o write_varint(USize(t.idx)) \o write_byte(flags) \o from \o to
                 \o OptId(cr.from_space) \o OptId(cr.from_version)
                 \o OptId(cr.to_space) \o OptId(cr.to_version) \o OptId(cr.entity)
                 \o (IF cr.position = <<>> THEN <<>> ELSE write_string(cr.position[1])),
                 g.b))))))))

\* encode_update_relation with the bit of each entry of the unset list added
\* to the flags rather than or-ed into them
encode_update_relation_adding(ur, b) ==
    Let(add_object(b, ur.id), LAMBDA o :
        Let(Flag(ur.from_space # None, 0) + Flag(ur.from_version # None, 1)
            + Flag(ur.to_space # None, 2) + Flag(ur.to_version # None, 3)
            + Flag(ur.position # <<>>, 4), LAMBDA set_flags :
        LET Count(f) == Cardinality({i \in 1..Len(ur.unset) : ur.unset[i] = f}) IN
        Let((Count("FromSpace") + 2 * Count("FromVersion") + 4 * Count("ToSpace")
             + 8 * Count("ToVersion") + 16 * Count("Position")) % 256, LAMBDA unset_flags :
        Let(IF ur.position = <<>> THEN NoErr ELSE validate_position(ur.position[1]), LAMBDA perr :
        IF perr # NoErr THEN EErr(perr, Nil)
        ELSE EOk(write_byte(OP_UPDATE_RELATION) \o write_varint(USize(o.idx))
                 \o write_byte(set_flags) \o write_byte(unset_flags)
                 \o OptId(ur.from_space) \o OptId(ur.from_version)
                 \o OptId(ur.to_space) \o OptId(ur.to_version)
                 \o (IF ur.position = <<>> THEN <<>> ELSE write_string(ur.position[1])),
                 o.b)))))

encode_update_relation(ur, b) ==
    Let(add_object(b, ur.id), LAMBDA o :
        Let(Flag(ur.from_space # None, 0) + Flag(ur.from_version # None, 1)
            + Flag(ur.to_space # None, 2) + Flag(ur.to_version # None, 3)
            + Flag(ur.position # <<>>, 4), LAMBDA set_flags :
        LET Unsets(f) == \E i \in 1..Len(ur.unset) : ur.unset[i] = f IN
        Let(Flag(Unsets("FromSpace"), 0) + Flag(Unsets("FromVersion"), 1)
            + Flag(Unsets("ToSpace"), 2) + Flag(Unsets("ToVersion"), 3)
            + Flag(Unsets("Position"), 4), LAMBDA unset_flags :
        Let(IF ur.position = <<>> THEN NoErr ELSE validate_position(ur.position[1]), LAMBDA perr :
        IF perr # NoErr THEN EErr(perr, Nil)
        ELSE EOk(write_byte(OP_UPDATE_RELATION) \o write_varint(USize(o.idx))
                 \o write_byte(set_flags) \o write_byte(unset_flags)
                 \o OptId(ur.from_space) \o OptId(ur.from_version)
                 \o OptId(ur.to_space) \o OptId(ur.to_version)
                 \o (IF ur.position = <<>> THEN <<>> ELSE write_string(ur.position[1])),
                 o.b)))))

encode_create_value_ref(cvr, b) ==
    Let(add_object(b, cvr.entity), LAMBDA e :
        Let(IF cvr.language # None THEN DT_Text ELSE DT_Bool, LAMBDA dt :
        Let(add_property(e.b, cvr.property, dt), LAMBDA p :
        Let(Flag(cvr.language # None, 0) + Flag(cvr.space # None, 1), LAMBDA flags :
        Let(add_language(p.b, cvr.language), LAMBDA l :
        EOk(write_byte(OP_CREATE_VALUE_REF) \o write_id(cvr.id)
            \o write_varint(USize(e.idx)) \o write_varint(USize(p.idx))
            \o write_byte(flags)
            \o (IF cvr.language # None THEN write_varint(USize(l.idx)) ELSE <<>>)
            \o OptId(cvr.space),
            l.b))))))

encode_op(op, b) ==
    CASE op.op = OP_CREATE_ENTITY -> encode_create_entity(op, b)
      [] op.op = OP_UPDATE_ENTITY -> encode_update_entity(op, b)
      [] op.op = OP_CREATE_RELATION -> encode_create_relation(op, b)
      [] op.op = OP_UPDATE_RELATION -> encode_update_relation(op, b)
      [] op.op = OP_CREATE_VALUE_REF -> encode_create_value_ref(op, b)
      [] OTHER -> encode_id_op(op, b)

(***************************************************************************)
(* Op decoders (codec/op.rs).  dicts is a WireDictionaries record.         *)
(***************************************************************************)
decode_position(d, p) ==
    Let(read_str(d, p, MAX_POSITION_LEN), LAMBDA r :
        IF r.err # NoErr THEN r
        ELSE IF \E i \in 1..Len(r.val) : ~IsAlnum(r.val[i])
             THEN RErr("InvalidPositionChar", r.pos)
        ELSE r)

\* Some(reader.read_id()?) when the flag bit is set, else None
read_opt_id(d, p, present) == IF present THEN read_id(d, p) ELSE ROk(None, p)

read_opt_position(d, p, present) ==
    IF ~present THEN ROk(<<>>, p)
    ELSE Let(decode_position(d, p), LAMBDA r :
             IF r.err # NoErr THEN r ELSE ROk(<<r.val>>, r.pos))

RECURSIVE decode_values(_, _, _, _, _)
decode_values(d, p, count, dicts, acc) ==
    IF count = 0 THEN ROk(acc, p)
    ELSE Let(decode_property_value(d, p, dicts), LAMBDA r :
             IF r.err # NoErr THEN r
             ELSE decode_values(d, r.pos, count - 1, dicts, Append(acc, r.val)))

\* count prefix checked against MAX_VALUES_PER_ENTITY, then the values
decode_value_list(d, p, dicts) ==
    Let(read_varint(d, p), LAMBDA c :
        IF c.err # NoErr THEN c
        ELSE IF U64Gt(c.val, MAX_VALUES_PER_ENTITY) THEN RErr("LengthExceedsLimit", c.pos)
        ELSE decode_values(d, c.pos, U64Small(c.val), dicts, <<>>))

decode_create_entity(d, p, dicts) ==
    Let(read_id(d, p), LAMBDA id :
        IF id.err # NoErr THEN id
        ELSE Let(decode_value_list(d, id.pos, dicts), LAMBDA vs :
                 IF vs.err # NoErr THEN vs
                 ELSE ROk(CreateEntity(id.val, vs.val, None), vs.pos)))

decode_unset_value(d, p, dicts) ==
    Let(read_index(d, p, dicts.properties), LAMBDA i :
        IF i.err # NoErr THEN i
        ELSE Let(read_varint(d, i.pos), LAMBDA l :
                 Let(U64AsU32(l.val), LAMBDA lang_value :
                 Let(U64Small(lang_value) - 1, LAMBDA idx :
                 IF l.err # NoErr THEN l
                 ELSE IF lang_value = SENTINEL
                      THEN ROk([property |-> i.val[1],
                                language |-> [kind |-> "All", id |-> None]], l.pos)
                 ELSE IF lang_value = U64Zero
                      THEN ROk([property |-> i.val[1],
                                language |-> [kind |-> "NonLinguistic", id |-> None]], l.pos)
                 ELSE IF U64Small(lang_value) = -1 \/ idx >= Len(dicts.languages)
                      THEN RErr("IndexOutOfBounds", l.pos)
                 ELSE ROk([property |-> i.val[1],
                           language |-> [kind |-> "Specific", id |-> dicts.languages[idx + 1]]],
                          l.pos)))))

RECURSIVE decode_unsets(_, _, _, _, _)
decode_unsets(d, p, count, dicts, acc) ==
    IF count = 0 THEN ROk(acc, p)
    ELSE Let(decode_unset_value(d, p, dicts), LAMBDA r :
             IF r.err # NoErr THEN r
             ELSE decode_unsets(d, r.pos, count - 1, dicts, Append(acc, r.val)))

decode_unset_list(d, p, dicts) ==
    Let(read_varint(d, p), LAMBDA c :
        IF c.err # NoErr THEN c
        ELSE IF U64Gt(c.val, MAX_VALUES_PER_ENTITY) THEN RErr("LengthExceedsLimit", c.pos)
        ELSE decode_unsets(d, c.pos, U64Small(c.val), dicts, <<>>))

\* decode_update_entity without the test of the reserved bits
decode_update_entity_unmasked(d, p, dicts) ==
    Let(read_index(d, p, dicts.objects), LAMBDA id :
        Let(read_byte(d, id.pos), LAMBDA flags :
        Let(IF HasBit(flags.val, 0) THEN decode_value_list(d, flags.pos, dicts)
            ELSE ROk(<<>>, flags.pos), LAMBDA sets :
        Let(IF HasBit(flags.val, 1) THEN decode_unset_list(d, sets.pos, dicts)
            ELSE ROk(<<>>, sets.pos), LAMBDA unsets :
        IF id.err # NoErr THEN id
        ELSE IF flags.err # NoErr THEN flags
        ELSE IF sets.err # NoErr THEN sets
        ELSE IF unsets.err # NoErr THEN unsets
        ELSE ROk(UpdateEntity(id.val, sets.val, unsets.val, None), unsets.pos)))))

decode_update_entity(d, p, dicts) ==
    Let(read_index(d, p, dicts.objects), LAMBDA id :
        Let(read_byte(d, id.pos), LAMBDA flags :
        Let(IF HasBit(flags.val, 0) THEN decode_value_list(d, flags.pos, dicts)
            ELSE ROk(<<>>, flags.pos), LAMBDA sets :
        Let(IF HasBit(flags.val, 1) THEN decode_unset_list(d, sets.pos, dicts)
            ELSE ROk(<<>>, sets.pos), LAMBDA unsets :
        IF id.err # NoErr THEN id
        ELSE IF flags.err # NoErr THEN flags
        ELSE IF BitAnd(flags.val, UPDATE_ENTITY_RESERVED_MASK) # 0
             THEN RErrWith("ReservedBitsSet", "UpdateEntity flags", flags.pos)
        ELSE IF sets.err # NoErr THEN sets
        ELSE IF unsets.err # NoErr THEN unsets
        ELSE ROk(UpdateEntity(id.val, sets.val, unsets.val, None), unsets.pos)))))

\* decode_delete_entity, decode_restore_entity, decode_delete_relation,
\* decode_restore_relation: the ObjectRef of the id
decode_id_op(d, p, dicts, tag) ==
    Let(read_index(d, p, dicts.objects), LAMBDA id :
        IF id.err # NoErr THEN id ELSE ROk(IdOp(tag, id.val), id.pos))

\* an endpoint of a relation: an inline id or an ObjectRef
read_endpoint(d, p, dicts, is_value_ref) ==
    IF is_value_ref THEN read_id(d, p) ELSE read_index(d, p, dicts.objects)

decode_create_relation(d, p, dicts) ==
    Let(read_id(d, p), LAMBDA id :
        Let(read_index(d, id.pos, dicts.relation_types), LAMBDA type :
        Let(read_byte(d, type.pos), LAMBDA fl :
        Let(fl.val, LAMBDA flags :
        Let(read_endpoint(d, fl.pos, dicts, HasBit(flags, 6)), LAMBDA from :
        Let(read_endpoint(d, from.pos, dicts, HasBit(flags, 7)), LAMBDA to :
        Let(read_opt_id(d, to.pos, HasBit(flags, 0)), LAMBDA from_space :
        Let(read_opt_id(d, from_space.pos, HasBit(flags, 1)), LAMBDA from_version :
        Let(read_opt_id(d, from_version.pos, HasBit(flags, 2)), LAMBDA to_space :
        Let(read_opt_id(d, to_space.pos, HasBit(flags, 3)), LAMBDA to_version :
        Let(read_opt_id(d, to_version.pos, HasBit(flags, 4)), LAMBDA entity :
        Let(read_opt_position(d, entity.pos, HasBit(flags, 5)), LAMBDA position :
        IF id.err # NoErr THEN id
        ELSE IF type.err # NoErr THEN type
        ELSE IF fl.err # NoErr THEN fl
        ELSE IF from.err # NoErr THEN from
        ELSE IF to.err # NoErr THEN to
        ELSE IF from_space.err # NoErr THEN from_space
        ELSE IF from_version.err # NoErr THEN from_version
        ELSE IF to_space.err # NoErr THEN to_space
        ELSE IF to_version.err # NoErr THEN to_version
        ELSE IF entity.err # NoErr THEN entity
        ELSE IF position.err # NoErr THEN position
        ELSE ROk([op |-> OP_CREATE_RELATION, id |-> id.val, relation_type |-> type.val,
                  from |-> from.val, from_is_value_ref |-> HasBit(flags, 6),
                  to |-> to.val, to_is_value_ref |-> HasBit(flags, 7),
                  entity |-> entity.val, position |-> position.val,
                  from_space |-> from_space.val, from_version |-> from_version.val,
                  to_space |-> to_space.val, to_version |-> to_version.val,
                  context |-> None], position.pos)))))))))))))

decode_update_relation(d, p, dicts) ==
    Let(read_index(d, p, dicts.objects), LAMBDA id :
        Let(read_byte(d, id.pos), LAMBDA sf :
        Let(read_byte(d, sf.pos), LAMBDA uf :
        Let(read_opt_id(d, uf.pos, HasBit(sf.val, 0)), LAMBDA from_space :
        Let(read_opt_id(d, from_space.pos, HasBit(sf.val, 1)), LAMBDA from_version :
        Let(read_opt_id(d, from_version.pos, HasBit(sf.val, 2)), LAMBDA to_space :
        Let(read_opt_id(d, to_space.pos, HasBit(sf.val, 3)), LAMBDA to_version :
        Let(read_opt_position(d, to_version.pos, HasBit(sf.val, 4)), LAMBDA position :
        Let(SelectSeq(UnsetRelationFields,
                      LAMBDA f : \E k \in 1..5 : UnsetRelationFields[k] = f
                                                 /\ HasBit(uf.val, k - 1)), LAMBDA unset :
        IF id.err # NoErr THEN id
        ELSE IF sf.err # NoErr THEN sf
        ELSE IF uf.err # NoErr THEN uf
        ELSE IF BitAnd(sf.val, UPDATE_SET_RESERVED_MASK) # 0
             THEN RErrWith("ReservedBitsSet", "UpdateRelation set_flags", uf.pos)
        ELSE IF BitAnd(uf.val, UPDATE_UNSET_RESERVED_MASK) # 0
             THEN RErrWith("ReservedBitsSet", "UpdateRelation unset_flags", uf.pos)
        ELSE IF from_space.err # NoErr THEN from_space
        ELSE IF from_version.err # NoErr THEN from_version
        ELSE IF to_space.err # NoErr THEN to_space
        ELSE IF to_version.err # NoErr THEN to_version
        ELSE IF position.err # NoErr THEN position
        ELSE ROk(UpdateRelation(id.val, from_space.val, from_version.val, to_space.val,
                                to_version.val, position.val, unset), position.pos))))))))))

decode_create_value_ref(d, p, dicts) ==
    Let(read_id(d, p), LAMBDA id :
        Let(read_index(d, id.pos, dicts.objects), LAMBDA entity :
        Let(read_index(d, entity.pos, dicts.properties), LAMBDA property :
        Let(read_byte(d, property.pos), LAMBDA fl :
        Let(HasBit(fl.val, 0), LAMBDA has_language :
        Let(IF has_language THEN decode_opt_ref(d, fl.pos, dicts.languages)
            ELSE ROk(None, fl.pos), LAMBDA language :
        Let(read_opt_id(d, language.pos, HasBit(fl.val, 1)), LAMBDA space :
        IF id.err # NoErr THEN id
        ELSE IF entity.err # NoErr THEN entity
        ELSE IF property.err # NoErr THEN property
        ELSE IF fl.err # NoErr THEN fl
        ELSE IF BitAnd(fl.val, CREATE_VALUE_REF_RESERVED_MASK) # 0
             THEN RErrWith("ReservedBitsSet", "CreateValueRef flags", fl.pos)
        ELSE IF has_language /\ property.val[2] # DT_Text
             THEN RErr("MalformedEncoding", fl.pos)
        ELSE IF language.err # NoErr THEN language
        ELSE IF space.err # NoErr THEN space
        ELSE ROk(CreateValueRef(id.val, entity.val, property.val[1], language.val, space.val),
                 space.pos))))))))

decode_op(d, p, dicts) ==
    Let(read_byte(d, p), LAMBDA t :
        Let(t.val, LAMBDA op_type :
        IF t.err # NoErr THEN t
        ELSE CASE op_type = OP_CREATE_ENTITY -> decode_create_entity(d, t.pos, dicts)
               [] op_type = OP_UPDATE_ENTITY -> decode_update_entity(d, t.pos, dicts)
               [] op_type = OP_CREATE_RELATION -> decode_create_relation(d, t.pos, dicts)
               [] op_type = OP_UPDATE_RELATION -> decode_update_relation(d, t.pos, dicts)
               [] op_type = OP_CREATE_VALUE_REF -> decode_create_value_ref(d, t.pos, dicts)
               [] op_type \in {OP_DELETE_ENTITY, OP_RESTORE_ENTITY,
                               OP_DELETE_RELATION, OP_RESTORE_RELATION}
                    -> decode_id_op(d, t.pos, dicts, op_type)
               [] OTHER -> [err |-> "InvalidOpType", val |-> op_type, pos |-> t.pos]))

(***************************************************************************)
(* Edit decoder (codec/edit.rs)                                            *)
(***************************************************************************)
RECURSIVE read_property_dict(_, _, _, _)
read_property_dict(d, p, count, properties) ==
    IF count = 0 THEN ROk(properties, p)
    ELSE Let(read_id(d, p), LAMBDA id :
             Let(read_byte(d, id.pos), LAMBDA dt_byte :
             IF id.err # NoErr THEN id
             ELSE IF \E i \in 1..Len(properties) : properties[i][1] = id.val
                  THEN RErrWith("DuplicateDictionaryEntry",
                                [dict |-> "properties", id |-> id.val], id.pos)
             ELSE IF dt_byte.err # NoErr THEN dt_byte
             ELSE IF DataType_from_u8(dt_byte.val) = 0
                  THEN RErrWith("InvalidDataType", dt_byte.val, dt_byte.pos)
             ELSE read_property_dict(d, dt_byte.pos, count - 1,
                                     Append(properties, <<id.val, dt_byte.val>>))))

RECURSIVE read_unique_ids(_, _, _, _, _)
read_unique_ids(d, p, count, field, ids) ==
    IF count = 0 THEN ROk(ids, p)
    ELSE Let(read_id(d, p), LAMBDA id :
             IF id.err # NoErr THEN id
             ELSE IF \E i \in 1..Len(ids) : ids[i] = id.val
                  THEN RErrWith("DuplicateDictionaryEntry",
                                [dict |-> field, id |-> id.val], id.pos)
             ELSE read_unique_ids(d, id.pos, count - 1, field, Append(ids, id.val)))

\* read_id_vec_no_duplicates without the `seen` set: a plain read_id_vec
read_id_vec_allowing_duplicates(d, p, max_len, field) == read_id_vec(d, p, max_len)

read_id_vec_no_duplicates(d, p, max_len, field) ==
    Let(read_varint(d, p), LAMBDA c :
        IF c.err # NoErr THEN c
        ELSE IF U64Gt(c.val, max_len) THEN RErr("LengthExceedsLimit", c.pos)
        ELSE read_unique_ids(d, c.pos, U64Small(c.val), field, <<>>))

RECURSIVE decode_context_edges(_, _, _, _, _)
decode_context_edges(d, p, count, dicts, edges) ==
    IF count = 0 THEN ROk(edges, p)
    ELSE Let(read_index(d, p, dicts.relation_types), LAMBDA t :
             Let(read_index(d, t.pos, dicts.context_ids), LAMBDA to :
             IF t.err # NoErr THEN t
             ELSE IF to.err # NoErr THEN to
             ELSE decode_context_edges(d, to.pos, count - 1, dicts,
                      Append(edges, [type_id |-> t.val, to_entity_id |-> to.val]))))

decode_context(d, p, dicts) ==
    Let(read_index(d, p, dicts.context_ids), LAMBDA root :
        Let(read_varint(d, root.pos), LAMBDA c :
        Let(decode_context_edges(d, c.pos, U64Small(c.val), dicts, <<>>), LAMBDA edges :
        IF root.err # NoErr THEN root
        ELSE IF c.err # NoErr THEN c
        ELSE IF U64Gt(c.val, MAX_DICT_SIZE) THEN RErr("LengthExceedsLimit", c.pos)
        ELSE IF edges.err # NoErr THEN edges
        ELSE ROk([root_id |-> root.val, edges |-> edges.val], edges.pos))))

RECURSIVE decode_contexts(_, _, _, _)
decode_contexts(d, p, count, dicts) ==
    IF count = 0 THEN ROk(dicts, p)
    ELSE Let(decode_context(d, p, dicts), LAMBDA c :
             IF c.err # NoErr THEN c
             ELSE decode_contexts(d, c.pos, count - 1,
                                  [dicts EXCEPT !.contexts = Append(@, c.val)]))

RECURSIVE decode_ops(_, _, _, _, _)
decode_ops(d, p, count, dicts, ops) ==
    IF count = 0 THEN ROk(ops, p)
    ELSE Let(decode_op(d, p, dicts), LAMBDA o :
             IF o.err # NoErr THEN o
             ELSE decode_ops(d, o.pos, count - 1, dicts, Append(ops, o.val)))

\* the dictionaries section: properties, then the five id tables
read_dictionaries(d, p) ==
    Let(read_varint(d, p), LAMBDA pc0 :
        Let(read_property_dict(d, pc0.pos, U64Small(pc0.val), <<>>), LAMBDA props :
        Let(read_id_vec_no_duplicates(d, props.pos, MAX_DICT_SIZE, "relation_types"), LAMBDA rel :
        Let(read_id_vec_no_duplicates(d, rel.pos, MAX_DICT_SIZE, "languages"), LAMBDA lang :
        Let(read_id_vec_no_duplicates(d, lang.pos, MAX_DICT_SIZE, "units"), LAMBDA unit :
        Let(read_id_vec_no_duplicates(d, unit.pos, MAX_DICT_SIZE, "objects"), LAMBDA obj :
        Let(read_id_vec_no_duplicates(d, obj.pos, MAX_DICT_SIZE, "context_ids"), LAMBDA cid :
        IF pc0.err # NoErr THEN pc0
        ELSE IF U64Gt(pc0.val, MAX_DICT_SIZE) THEN RErr("LengthExceedsLimit", pc0.pos)
        ELSE IF props.err # NoErr THEN props
        ELSE IF rel.err # NoErr THEN rel
        ELSE IF lang.err # NoErr THEN lang
        ELSE IF unit.err # NoErr THEN unit
        ELSE IF obj.err # NoErr THEN obj
        ELSE IF cid.err # NoErr THEN cid
        ELSE ROk([properties |-> props.val, relation_types |-> rel.val,
                  languages |-> lang.val, units |-> unit.val, objects |-> obj.val,
                  context_ids |-> cid.val, contexts |-> <<>>], cid.pos))))))))

\* the body shared by decode_edit_borrowed and decode_edit_owned; owned
\* selects read_string (owned) or read_str (borrowed) for the name
decode_edit_body(d, owned) ==
    Let(read_bytes(d, 0, 4), LAMBDA magic :
        Let(read_byte(d, magic.pos), LAMBDA version :
        Let(read_id(d, version.pos), LAMBDA edit_id :
        Let(IF owned THEN read_string(d, edit_id.pos, MAX_STRING_LEN)
            ELSE read_str(d, edit_id.pos, MAX_STRING_LEN), LAMBDA name :
        Let(read_id_vec(d, name.pos, MAX_AUTHORS), LAMBDA authors :
        Let(read_signed_varint(d, authors.pos), LAMBDA created_at :
        Let(read_dictionaries(d, created_at.pos), LAMBDA dicts0 :
        Let(read_varint(d, dicts0.pos), LAMBDA cc :
        Let(decode_contexts(d, cc.pos, U64Small(cc.val), dicts0.val), LAMBDA dicts :
        Let(read_varint(d, dicts.pos), LAMBDA oc :
        Let(decode_ops(d, oc.pos, U64Small(oc.val), dicts.val, <<>>), LAMBDA ops :
        IF magic.err # NoErr THEN magic
        ELSE IF version.err # NoErr THEN version
        ELSE IF version.val < MIN_FORMAT_VERSION \/ version.val > FORMAT_VERSION
             THEN RErrWith("UnsupportedVersion", version.val, version.pos)
        ELSE IF edit_id.err # NoErr THEN edit_id
        ELSE IF name.err # NoErr THEN name
        ELSE IF authors.err # NoErr THEN authors
        ELSE IF created_at.err # NoErr THEN created_at
        ELSE IF dicts0.err # NoErr THEN dicts0
        ELSE IF cc.err # NoErr THEN cc
        ELSE IF U64Gt(cc.val, MAX_DICT_SIZE) THEN RErr("LengthExceedsLimit", cc.pos)
        ELSE IF dicts.err # NoErr THEN dicts
        ELSE IF oc.err # NoErr THEN oc
        ELSE IF U64Gt(oc.val, MAX_OPS_PER_EDIT) THEN RErr("LengthExceedsLimit", oc.pos)
        ELSE IF ops.err # NoErr THEN ops
        ELSE ROk([id |-> edit_id.val, name |-> name.val, authors |-> authors.val,
                  created_at |-> created_at.val, ops |-> ops.val], ops.pos))))))))))))

decode_edit_borrowed(input) == decode_edit_body(input, FALSE)

decode_edit_owned(d) == decode_edit_body(d, TRUE)

(***************************************************************************)
(* The zstd crate, as far as the codec depends on it: a frame is the zstd  *)
(* magic number, a byte r in {0, 1} and the content; it decompresses to    *)
(* the content followed by r * MAX_EDIT_SIZE zero bytes (a compressed run),*)
(* and the decoder rejects every other stream.  zeros is the number of     *)
(* zero bytes that follow the given bytes in the input.                    *)
(***************************************************************************)
ZSTD_MAGIC == <<40, 181, 47, 253>>

zstd_encode_all(bytes) == ZSTD_MAGIC \o <<0>> \o bytes

\* what the decoder yields for a stream: the payload followed by a run of
\* zeros (len is the full decompressed length; of a run only the first
\* ZeroHead bytes are held in val).  Bytes after the frame are no frame.
ZeroHead(n) == [i \in 1..(IF n < 5 THEN n ELSE 5) |-> 0]

zstd_read_to_end(stream, zeros) ==
    IF Len(stream) >= 5 /\ SubSeq(stream, 1, 4) = ZSTD_MAGIC /\ stream[5] \in {0, 1}
       /\ zeros = 0
    THEN [err |-> NoErr,
          val |-> SubSeq(stream, 6, Len(stream)) \o ZeroHead(stream[5] * MAX_EDIT_SIZE),
          len |-> Len(stream) - 5 + stream[5] * MAX_EDIT_SIZE]
    ELSE [err |-> "DecompressionFailed", val |-> Nil, len |-> 0]

\* decompress_zstd without the comparison of the two sizes
decompress_zstd_unchecked(compressed, zeros) ==
    Let(read_varint(compressed, 0), LAMBDA declared_size :
        Let(zstd_read_to_end(SubSeq(compressed, declared_size.pos + 1, Len(compressed)), zeros), LAMBDA z :
        IF declared_size.err # NoErr THEN declared_size
        ELSE IF U64Gt(declared_size.val, MAX_EDIT_SIZE)
             THEN RErrWith("LengthExceedsLimit", "uncompressed_size", declared_size.pos)
        ELSE IF z.err # NoErr THEN RErr(z.err, declared_size.pos)
        ELSE ROk([bytes |-> z.val, len |-> z.len], declared_size.pos)))

decompress_zstd(compressed, zeros) ==
    Let(read_varint(compressed, 0), LAMBDA declared_size :
        Let(zstd_read_to_end(SubSeq(compressed, declared_size.pos + 1, Len(compressed)), zeros), LAMBDA z :
        IF declared_size.err # NoErr THEN declared_size
        ELSE IF U64Gt(declared_size.val, MAX_EDIT_SIZE)
             THEN RErrWith("LengthExceedsLimit", "uncompressed_size", declared_size.pos)
        ELSE IF z.err # NoErr THEN RErr(z.err, declared_size.pos)
        ELSE IF z.len # U64Small(declared_size.val)
             THEN RErrWith("UncompressedSizeMismatch",
                           [declared |-> declared_size.val, actual |-> z.len],
                           declared_size.pos)
        ELSE ROk([bytes |-> z.val, len |-> z.len], declared_size.pos)))

\* decode_edit with the two magic tests in the other order
decode_edit_magic_first(input, zeros) ==
    Let(Len(input) + zeros, LAMBDA len :
        Let(decompress_zstd(SubSeq(input, 6, Len(input)), zeros), LAMBDA decompressed :
        IF len < 4 THEN RErrWith("UnexpectedEof", "magic", 0)
        ELSE IF SubSeq(input, 1, 4) = MAGIC_UNCOMPRESSED
             THEN IF len > MAX_EDIT_SIZE THEN RErrWith("LengthExceedsLimit", "edit", 0)
                  ELSE decode_edit_borrowed(input)
        ELSE IF len >= 5 /\ SubSeq(input, 1, 5) = MAGIC_COMPRESSED
             THEN IF decompressed.err # NoErr THEN decompressed
                  ELSE decode_edit_owned(decompressed.val.bytes)
        ELSE RErrWith("InvalidMagic", SubSeq(input, 1, 4), 0)))

\* decode_edit on the input `input` followed by `zeros` zero bytes; zeros is
\* 0 or MAX_EDIT_SIZE, the latter only after an input of five bytes or more
decode_edit(input, zeros) ==
    Let(Len(input) + zeros, LAMBDA len :
        Let(decompress_zstd(SubSeq(input, 6, Len(input)), zeros), LAMBDA decompressed :
        IF len < 4 THEN RErrWith("UnexpectedEof", "magic", 0)
        ELSE IF len >= 5 /\ SubSeq(input, 1, 5) = MAGIC_COMPRESSED
             THEN IF decompressed.err # NoErr THEN decompressed
                  ELSE IF decompressed.val.len > MAX_EDIT_SIZE
                       THEN RErrWith("LengthExceedsLimit", "edit", 0)
                  ELSE decode_edit_owned(decompressed.val.bytes)
        ELSE IF SubSeq(input, 1, 4) = MAGIC_UNCOMPRESSED
             THEN IF len > MAX_EDIT_SIZE THEN RErrWith("LengthExceedsLimit", "edit", 0)
                  ELSE decode_edit_borrowed(input)
        ELSE RErrWith("InvalidMagic", SubSeq(input, 1, 4), 0)))

(***************************************************************************)
(* Edit encoder (codec/edit.rs)                                            *)
(***************************************************************************)
validate_context_limits(context) ==
    IF context # None /\ Len(context.edges) > MAX_DICT_SIZE THEN "LengthExceedsLimit" ELSE NoErr

validate_op_inputs(op) ==
    CASE op.op = OP_CREATE_ENTITY ->
            IF Len(op.values) > MAX_VALUES_PER_ENTITY THEN "LengthExceedsLimit"
            ELSE validate_context_limits(op.context)
      [] op.op = OP_UPDATE_ENTITY ->
            IF Len(op.set_properties) > MAX_VALUES_PER_ENTITY
               \/ Len(op.unset_values) > MAX_VALUES_PER_ENTITY
            THEN "LengthExceedsLimit"
            ELSE validate_context_limits(op.context)
      [] op.op = OP_CREATE_VALUE_REF -> NoErr
      [] OTHER -> validate_context_limits(op.context)

validate_edit_inputs(e) ==
    IF Len(e.name) > MAX_STRING_LEN THEN "LengthExceedsLimit"
    ELSE IF Len(e.authors) > MAX_AUTHORS THEN "LengthExceedsLimit"
    ELSE IF Len(e.ops) > MAX_OPS_PER_EDIT THEN "LengthExceedsLimit"
    ELSE IF \E i \in 1..Len(e.ops) : validate_op_inputs(e.ops[i]) # NoErr
         THEN "LengthExceedsLimit"
    ELSE NoErr

\* sort key of a value: (property index, language index)
ValueKey(pv, b) ==
    Let(get_property_index(b, pv.property), LAMBDA p :
        Let(IF pv.value.dt = DT_Text THEN get_language_index(b, pv.value.language) ELSE 0, LAMBDA l :
        <<IF p = -1 THEN 0 ELSE p, IF l = -1 THEN 0 ELSE l>>))

\* sort key of an unset: (property index, language key); the key of All,
\* 0xFFFFFFFF, is above every language index and is held as <<1, 0>>
UnsetKey(u, b) ==
    Let(get_property_index(b, u.property), LAMBDA p :
        Let(get_language_index(b, u.language.id), LAMBDA l :
        <<IF p = -1 THEN 0 ELSE p>>
        \o (CASE u.language.kind = "All" -> <<1, 0>>
              [] u.language.kind = "NonLinguistic" -> <<0, 0>>
              [] OTHER -> <<0, IF l = -1 THEN 0 ELSE l>>)))

\* the first adjacent pair of equal keys in a sorted list, or 0
FirstDuplicate(sorted) ==
    IF \E i \in 2..Len(sorted) : sorted[i].k = sorted[i - 1].k
    THEN CHOOSE i \in 2..Len(sorted) :
            /\ sorted[i].k = sorted[i - 1].k
            /\ \A j \in 2..(i - 1) : sorted[j].k # sorted[j - 1].k
    ELSE 0

\* the sort alone, adjacent equal keys let through
sort_values_unchecked(values, b) ==
    Let(SortByKey([i \in 1..Len(values) |->
                      [k |-> ValueKey(values[i], b), v |-> values[i]]]), LAMBDA indexed :
        [err |-> NoErr, val |-> [i \in 1..Len(indexed) |-> indexed[i].v]])

sort_and_check_values(values, b) ==
    Let(SortByKey([i \in 1..Len(values) |->
                      [k |-> ValueKey(values[i], b), v |-> values[i]]]), LAMBDA indexed :
        Let(FirstDuplicate(indexed), LAMBDA dup :
        IF dup # 0
        THEN EErr("DuplicateValue", [property |-> indexed[dup].v.property,
                                     language |-> indexed[dup].v.value.language])
        ELSE [err |-> NoErr, val |-> [i \in 1..Len(indexed) |-> indexed[i].v]]))

\* sort_and_check_unsets with the duplicate test on the sorted keys and the
\* unsets returned in the order given
sort_and_check_unsets_in_place(unsets, b) ==
    Let(SortByKey([i \in 1..Len(unsets) |->
                      [k |-> UnsetKey(unsets[i], b), v |-> unsets[i]]]), LAMBDA indexed :
        Let(FirstDuplicate(indexed), LAMBDA dup :
        IF dup # 0
        THEN EErr("DuplicateUnset", [property |-> indexed[dup].v.property,
                                     language |-> indexed[dup].v.language.id])
        ELSE [err |-> NoErr, val |-> unsets]))

sort_and_check_unsets(unsets, b) ==
    Let(SortByKey([i \in 1..Len(unsets) |->
                      [k |-> UnsetKey(unsets[i], b), v |-> unsets[i]]]), LAMBDA indexed :
        Let(FirstDuplicate(indexed), LAMBDA dup :
        IF dup # 0
        THEN EErr("DuplicateUnset", [property |-> indexed[dup].v.property,
                                     language |-> indexed[dup].v.language.id])
        ELSE [err |-> NoErr, val |-> [i \in 1..Len(indexed) |-> indexed[i].v]]))

\* context_ref: 0xFFFFFFFF = no context, else the index into contexts[]
write_context_ref(context, b) ==
    IF context = None THEN EOk(write_varint(SENTINEL), b)
    ELSE Let(add_context(b, context), LAMBDA c :
             EOk(write_varint(USize(c.idx)), c.b))

encode_op_canonical(op, b) ==
    CASE op.op = OP_CREATE_ENTITY ->
            Let(sort_and_check_values(op.values, b), LAMBDA sorted_values :
                Let(encode_create_entity([op EXCEPT !.values = sorted_values.val], b), LAMBDA r :
                Let(write_context_ref(op.context, r.b), LAMBDA c :
                IF sorted_values.err # NoErr THEN sorted_values
                ELSE IF r.err # NoErr THEN r
                ELSE EOk(r.bytes \o c.bytes, c.b))))
      [] op.op = OP_UPDATE_ENTITY ->
            Let(sort_and_check_values(op.set_properties, b), LAMBDA sorted_set :
                Let(sort_and_check_unsets(op.unset_values, b), LAMBDA sorted_unset :
                Let( encode_update_entity([op EXCEPT !.set_properties = sorted_set.val,
                                                     !.unset_values = sorted_unset.val], b), LAMBDA r :
                Let(write_context_ref(op.context, r.b), LAMBDA c :
                IF sorted_set.err # NoErr THEN sorted_set
                ELSE IF sorted_unset.err # NoErr THEN sorted_unset
                ELSE IF r.err # NoErr THEN r
                ELSE EOk(r.bytes \o c.bytes, c.b)))))
      [] OTHER -> encode_op(op, b)

RECURSIVE encode_ops(_, _, _, _)
encode_ops(ops, b, acc, canonical) ==
    IF ops = <<>> THEN EOk(acc, b)
    ELSE Let(IF canonical THEN encode_op_canonical(Head(ops), b)
             ELSE encode_op(Head(ops), b), LAMBDA r :
             IF r.err # NoErr THEN r
             ELSE encode_ops(Tail(ops), r.b, acc \o r.bytes, canonical))

\* header, dictionaries, contexts and ops of the final output
assemble(e, authors, b, ops_bytes) ==
    MAGIC_UNCOMPRESSED \o write_byte(FORMAT_VERSION)
    \o write_id(e.id) \o write_string(e.name) \o write_id_vec(authors)
    \o write_signed_varint(e.created_at)
    \o write_dictionaries(b) \o write_contexts(b)
    \o write_varint(USize(Len(e.ops))) \o ops_bytes

encode_edit_fast(e) ==
    Let(encode_ops(e.ops, DictionaryBuilder_new, <<>>, FALSE), LAMBDA ops :
        IF ops.err # NoErr THEN ops
        ELSE IF validate_limits(ops.b) # NoErr THEN EErr(validate_limits(ops.b), Nil)
        ELSE EOk(assemble(e, e.authors, ops.b, ops.bytes), ops.b))

encode_edit_canonical(e) ==
    Let(encode_ops(e.ops, DictionaryBuilder_new, <<>>, FALSE), LAMBDA pass1 :
        Let(into_sorted(pass1.b), LAMBDA sorted_builder :
        Let(SortIds(e.authors), LAMBDA sorted_authors :
        Let(encode_ops(e.ops, sorted_builder, <<>>, TRUE), LAMBDA pass2 :
        IF pass1.err # NoErr THEN pass1
        ELSE IF validate_limits(pass1.b) # NoErr THEN EErr(validate_limits(pass1.b), Nil)
        ELSE IF \E i \in 2..Len(sorted_authors) : sorted_authors[i] = sorted_authors[i - 1]
             THEN EErr("DuplicateAuthor",
                       sorted_authors[CHOOSE i \in 2..Len(sorted_authors) :
                           /\ sorted_authors[i] = sorted_authors[i - 1]
                           /\ \A j \in 2..(i - 1) : sorted_authors[j] # sorted_authors[j - 1]])
        ELSE IF pass2.err # NoErr THEN pass2
        ELSE EOk(assemble(e, sorted_authors, sorted_builder, pass2.bytes), pass2.b)))))

encode_edit_with_options(e, canonical) ==
    IF validate_edit_inputs(e) # NoErr THEN EErr(validate_edit_inputs(e), Nil)
    ELSE IF canonical THEN encode_edit_canonical(e)
    ELSE encode_edit_fast(e)

encode_edit(e) == encode_edit_with_options(e, FALSE)

encode_edit_compressed_with_options(e, canonical) ==
    Let(encode_edit_with_options(e, canonical), LAMBDA uncompressed :
        Let(zstd_encode_all(uncompressed.bytes), LAMBDA compressed :
        IF uncompressed.err # NoErr THEN uncompressed
        ELSE EOk(MAGIC_COMPRESSED \o write_varint(USize(Len(uncompressed.bytes)))
                 \o compressed, uncompressed.b)))

(***************************************************************************)
(* The calls made on an edit and on raw bytes.  Each action is one call of *)
(* the public API; pc records which call has been made.                    *)
(***************************************************************************)
EncodeFast ==
    /\ pc = "edit"
    /\ encoded' = encode_edit(edit)
    /\ pc' = "fast"
    /\ UNCHANGED <<edit, other, decoded, data, tail, result>>

EncodeCanonical ==
    /\ pc = "edit"
    /\ encoded' = encode_edit_with_options(edit, TRUE)
    /\ pc' = "canonical"
    /\ UNCHANGED <<edit, other, decoded, data, tail, result>>

EncodeCompressed ==
    /\ pc = "edit"
    /\ encoded' = encode_edit_compressed_with_options(edit, FALSE)
    /\ pc' = "compressed"
    /\ UNCHANGED <<edit, other, decoded, data, tail, result>>

Decode ==
    /\ pc \in {"fast", "canonical", "compressed"}
    /\ encoded.err = NoErr
    /\ decoded' = decode_edit(encoded.bytes, 0)
    /\ pc' = (CASE pc = "fast" -> "fast_decoded"
                [] pc = "canonical" -> "canonical_decoded"
                [] pc = "compressed" -> "compressed_decoded")
    /\ UNCHANGED <<edit, other, encoded, data, tail, result>>

Reencode ==
    /\ pc = "canonical_decoded"
    /\ decoded.err = NoErr
    /\ result' = encode_edit_with_options(decoded.val, TRUE)
    /\ pc' = "reencoded"
    /\ UNCHANGED <<edit, other, encoded, decoded, data, tail>>

DecodeBytes ==
    /\ pc = "bytes"
    /\ result' = decode_edit(data, tail)
    /\ pc' = "bytes_decoded"
    /\ UNCHANGED <<edit, other, encoded, decoded, data, tail>>

(***************************************************************************)
(* Ids, values and ops the edits of the model are made of                  *)
(***************************************************************************)
\* the id whose first byte is hi and whose last byte is lo
MkId(hi, lo) == [i \in 1..16 |-> IF i = 1 THEN hi ELSE IF i = 16 THEN lo ELSE 0]

EditId == MkId(9, 9)
AuthorA == MkId(0, 7)
AuthorB == MkId(1, 0)
P1 == MkId(0, 200)
P2 == MkId(0, 3)
P3 == MkId(0, 12)
P4 == MkId(4, 0)
L1 == MkId(2, 1)
L2 == MkId(0, 5)
U1 == MkId(0, 6)
E1 == MkId(3, 0)
E2 == MkId(0, 4)
R1 == MkId(0, 8)
T1 == MkId(5, 5)
V1 == MkId(0, 10)
S1 == MkId(0, 11)

PV(property, value) == [property |-> property, value |-> value]

Unset(property, kind, id) == [property |-> property, language |-> [kind |-> kind, id |-> id]]

CreateRelation(id, relation_type, from, from_is_value_ref, to, to_is_value_ref, opt) ==
    [op |-> OP_CREATE_RELATION, id |-> id, relation_type |-> relation_type,
     from |-> from, from_is_value_ref |-> from_is_value_ref,
     to |-> to, to_is_value_ref |-> to_is_value_ref,
     entity |-> opt.entity, position |-> opt.position,
     from_space |-> opt.from_space, from_version |-> opt.from_version,
     to_space |-> opt.to_space, to_version |-> opt.to_version, context |-> None]

NoOpt == [entity |-> None, position |-> <<>>, from_space |-> None,
          from_version |-> None, to_space |-> None, to_version |-> None]

OpPool ==
    { CreateEntity(E1, <<PV(P1, ValueText(<<97, 98>>, None))>>, None),
      CreateEntity(E2, <<PV(P2, ValueInt64(I64FromInt(-1), U1)),
                         PV(P1, ValueText(<<97>>, L1))>>, None),
      UpdateEntity(E1, <<PV(P2, ValueInt64(I64_MIN, None))>>,
                   <<Unset(P1, "All", None), Unset(P2, "Specific", L2)>>, None),
      UpdateEntity(E2, <<>>, <<Unset(P3, "NonLinguistic", None)>>, None),
      IdOp(OP_DELETE_ENTITY, E1),
      IdOp(OP_RESTORE_ENTITY, E2),
      CreateRelation(R1, T1, E1, FALSE, E2, FALSE,
                     [NoOpt EXCEPT !.position = <<<<97, 49>>>>, !.from_space = S1,
                                   !.to_version = V1, !.entity = E2]),
      CreateRelation(R1, T1, V1, TRUE, E1, TRUE,
                     [NoOpt EXCEPT !.from_version = S1, !.to_space = S1]),
      UpdateRelation(R1, S1, None, None, V1, <<<<122>>>>, <<"ToSpace">>),
      IdOp(OP_DELETE_RELATION, R1),
      IdOp(OP_RESTORE_RELATION, R1),
      CreateValueRef(V1, E1, P1, None, None),
      CreateValueRef(V1, E2, P1, L1, S1),
      CreateEntity(E1, <<PV(P3, ValueBool(TRUE)), PV(P4, ValueBytes(<<0, 255>>))>>, None) }

MaxOps == 2

RECURSIVE SeqsUpTo(_, _)
SeqsUpTo(S, n) ==
    IF n = 0 THEN {<<>>}
    ELSE Let(SeqsUpTo(S, n - 1), LAMBDA shorter :
             shorter \cup {Append(q, x) : q \in {r \in shorter : Len(r) = n - 1}, x \in S})

Headers ==
    { [name |-> <<>>, authors |-> <<>>, created_at |-> U64Zero],
      [name |-> <<104, 105>>, authors |-> <<AuthorB, AuthorA>>, created_at |-> I64FromInt(-1)],
      [name |-> <<195, 169>>, authors |-> <<AuthorA>>, created_at |-> I64_MAX] }

MkEdit(h, ops) ==
    [id |-> EditId, name |-> h.name, authors |-> h.authors,
     created_at |-> h.created_at, ops |-> ops]

CodecEdits == { MkEdit(h, ops) : h \in Headers, ops \in SeqsUpTo(OpPool, MaxOps) }

InitCodec ==
    /\ pc = "edit"
    /\ edit \in CodecEdits
    /\ other = Nil /\ encoded = Nil /\ decoded = Nil
    /\ data = Nil /\ tail = 0 /\ result = Nil

NextCodec == EncodeFast \/ EncodeCanonical \/ EncodeCompressed \/ Decode \/ Reencode

SpecCodec == InitCodec /\ [][NextCodec]_vars

\* C1: decode_edit(encode_edit(e)) succeeds and returns an edit equal to e
\* for every edit e that encode_edit accepts.
C1_RoundTrip ==
    pc = "fast_decoded" => decoded.err = NoErr /\ decoded.val = edit

\* s and t hold the same elements the same number of times
IsPermutation(s, t) ==
    /\ Len(s) = Len(t)
    /\ \A i \in 1..Len(s) :
          Cardinality({j \in 1..Len(s) : s[j] = s[i]})
             = Cardinality({j \in 1..Len(t) : t[j] = s[i]})

\* two ops are equal up to the order of their value and unset lists
OpEqualUpToOrder(a, b) ==
    /\ a.op = b.op
    /\ CASE a.op = OP_CREATE_ENTITY ->
               a.id = b.id /\ a.context = b.context /\ IsPermutation(a.values, b.values)
         [] a.op = OP_UPDATE_ENTITY ->
               /\ a.id = b.id /\ a.context = b.context
               /\ IsPermutation(a.set_properties, b.set_properties)
               /\ IsPermutation(a.unset_values, b.unset_values)
         [] OTHER -> a = b

EditEqualUpToOrder(a, b) ==
    /\ a.id = b.id /\ a.name = b.name /\ a.created_at = b.created_at
    /\ IsPermutation(a.authors, b.authors)
    /\ Len(a.ops) = Len(b.ops)
    /\ \A i \in 1..Len(a.ops) : OpEqualUpToOrder(a.ops[i], b.ops[i])

\* C4: for every edit e that canonical encoding accepts, with bytes b,
\* decode_edit(b) succeeds with an edit equal to e up to the order of
\* authors, values and unsets, and the canonical encoding of the decoded
\* edit is exactly b.
C4_CanonicalRoundTrip ==
    /\ pc = "canonical_decoded" =>
          decoded.err = NoErr /\ EditEqualUpToOrder(decoded.val, edit)
    /\ pc = "reencoded" => result.err = NoErr /\ result.bytes = encoded.bytes

\* C5: in fast and in canonical mode the decoded op list has the length of
\* the input op list and the same op kind and target id at every position.
C5_OpOrder ==
    pc \in {"fast_decoded", "canonical_decoded"} =>
        /\ decoded.err = NoErr
        /\ Len(decoded.val.ops) = Len(edit.ops)
        /\ \A i \in 1..Len(edit.ops) :
              /\ decoded.val.ops[i].op = edit.ops[i].op
              /\ decoded.val.ops[i].id = edit.ops[i].id

(***************************************************************************)
(* Specification Canonical: one edit and a reordering of it (authors,      *)
(* values and unsets permuted) are encoded; the edits carry entity ops     *)
(* with every combination of duplicate and distinct keys.                  *)
(***************************************************************************)
MaxValues == 2

ValuePool ==
    { PV(P1, ValueText(<<97>>, None)),
      PV(P1, ValueText(<<98>>, L1)),
      PV(P1, ValueText(<<99>>, None)),
      PV(P2, ValueInt64(I64FromInt(-1), U1)),
      PV(P1, ValueBool(TRUE)) }

UnsetPool ==
    { Unset(P1, "All", None),
      Unset(P1, "Specific", L1),
      Unset(P1, "NonLinguistic", None),
      Unset(P2, "Specific", L1) }

CanonicalEdits ==
    Let([name |-> <<104, 105>>, authors |-> <<AuthorB, AuthorA>>, created_at |-> U64Zero], LAMBDA h :
        Let(PV(P1, ValueText(<<97>>, None)), LAMBDA v1 :
        Let(PV(P1, ValueText(<<98>>, L1)), LAMBDA v2 :
        Let(Unset(P2, "All", None), LAMBDA u1 :
        { MkEdit([h EXCEPT !.authors = a], <<CreateEntity(E1, <<v1, v2>>, None)>>) :
              a \in SeqsUpTo({AuthorA, AuthorB}, MaxValues) }
        \cup { MkEdit(h, <<CreateEntity(E1, vs, None)>>) :
                  vs \in SeqsUpTo(ValuePool, MaxValues) }
        \cup { MkEdit(h, <<UpdateEntity(E2, vs, <<u1>>, None)>>) :
                  vs \in SeqsUpTo(ValuePool, MaxValues) }
        \cup { MkEdit(h, <<UpdateEntity(E2, <<v2>>, us, None)>>) :
                  us \in SeqsUpTo(UnsetPool, MaxValues) }
        \cup { MkEdit([h EXCEPT !.authors = <<AuthorA, AuthorA>>],
                      <<UpdateEntity(E2, <<v1, v1>>, <<u1, u1>>, None)>>),
               MkEdit(h, <<UpdateEntity(E2, <<v1, v1>>, <<u1, u1>>, None)>>),
               MkEdit(h, <<UpdateEntity(E2, <<v2>>, <<u1, u1>>, None),
                           CreateEntity(E1, <<v1, v1>>, None)>>),
               MkEdit(h, <<IdOp(OP_DELETE_ENTITY, E1),
                           UpdateEntity(E2, <<v1, v2>>, <<u1>>, None)>>) }))))

\* the sequences holding the elements of s in any order
Perms(s) ==
    { t \in [1..Len(s) -> {s[i] : i \in 1..Len(s)}] : IsPermutation(s, t) }

\* the ops that differ from op in the order of its values and unsets only
ReorderOp(op) ==
    CASE op.op = OP_CREATE_ENTITY ->
            { [op EXCEPT !.values = vs] : vs \in Perms(op.values) }
      [] op.op = OP_UPDATE_ENTITY ->
            { [op EXCEPT !.set_properties = vs, !.unset_values = us] :
                  vs \in Perms(op.set_properties), us \in Perms(op.unset_values) }
      [] OTHER -> {op}

\* the edits that differ from e in the order of authors, values and unsets
Reorderings(e) ==
    { [e EXCEPT !.authors = a, !.ops = o] :
          a \in Perms(e.authors),
          o \in { q \in [1..Len(e.ops) -> UNION {ReorderOp(e.ops[i]) : i \in 1..Len(e.ops)}] :
                      \A i \in 1..Len(e.ops) : q[i] \in ReorderOp(e.ops[i]) } }

InitCanonical ==
    /\ pc = "edit"
    /\ edit \in CanonicalEdits
    /\ other \in Reorderings(edit)
    /\ encoded = Nil /\ decoded = Nil
    /\ data = Nil /\ tail = 0 /\ result = Nil

\* the canonical encoding of the reordered edit
EncodeOther ==
    /\ pc = "canonical"
    /\ result' = encode_edit_with_options(other, TRUE)
    /\ pc' = "canonical_pair"
    /\ UNCHANGED <<edit, other, encoded, decoded, data, tail>>

NextCanonical == EncodeFast \/ EncodeCanonical \/ EncodeOther

SpecCanonical == InitCanonical /\ [][NextCanonical]_vars

\* C2: two edits that differ only in the order of authors, of values and of
\* unsets have byte-identical canonical encodings whenever canonical
\* encoding accepts them.
C2_CanonicalDeterministic ==
    (pc = "canonical_pair" /\ encoded.err = NoErr /\ result.err = NoErr)
        => encoded.bytes = result.bytes

\* some element of s occurs twice
HasDuplicate(s) == \E i, j \in 1..Len(s) : i < j /\ s[i] = s[j]

\* the (property, language) keys of a value list and of an unset list
ValueKeys(values) ==
    [i \in 1..Len(values) |-> <<values[i].property, values[i].value.language>>]

UnsetKeys(unsets) ==
    [i \in 1..Len(unsets) |-> <<unsets[i].property, unsets[i].language>>]

DuplicateValues(e) ==
    \E i \in 1..Len(e.ops) :
        \/ e.ops[i].op = OP_CREATE_ENTITY /\ HasDuplicate(ValueKeys(e.ops[i].values))
        \/ e.ops[i].op = OP_UPDATE_ENTITY /\ HasDuplicate(ValueKeys(e.ops[i].set_properties))

DuplicateUnsets(e) ==
    \E i \in 1..Len(e.ops) :
        e.ops[i].op = OP_UPDATE_ENTITY /\ HasDuplicate(UnsetKeys(e.ops[i].unset_values))

\* C3: canonical encoding fails with DuplicateAuthor when an author occurs
\* twice, with DuplicateValue when a value list holds two entries of one
\* (property, language), with DuplicateUnset when an unset list does (the
\* error is that of a duplicate the edit has, DuplicateAuthor first); it
\* accepts entries that share a property and differ in language; fast
\* encoding accepts all of these edits.
C3_CanonicalRejectsDuplicates ==
    Let(HasDuplicate(edit.authors), LAMBDA da :
        Let(DuplicateValues(edit), LAMBDA dv :
        Let(DuplicateUnsets(edit), LAMBDA du :
        /\ pc = "fast" => encoded.err = NoErr
        /\ pc = "canonical" =>
              /\ da => encoded.err = "DuplicateAuthor"
              /\ (~da /\ dv /\ ~du) => encoded.err = "DuplicateValue"
              /\ (~da /\ du /\ ~dv) => encoded.err = "DuplicateUnset"
              /\ (~da /\ dv /\ du) => encoded.err \in {"DuplicateValue", "DuplicateUnset"}
              /\ (~da /\ ~dv /\ ~du) => encoded.err = NoErr)))

C3_Witness ==
    /\ pc = "canonical"
    /\ encoded.err = "DuplicateValue"
    /\ ~HasDuplicate(edit.authors)
    /\ \E i \in 1..Len(edit.ops) :
          /\ edit.ops[i].op = OP_CREATE_ENTITY
          /\ \E j, k \in 1..Len(edit.ops[i].values) :
                /\ j < k
                /\ edit.ops[i].values[j] # edit.ops[i].values[k]
                /\ edit.ops[i].values[j].property = edit.ops[i].values[k].property
                /\ edit.ops[i].values[j].value.language = edit.ops[i].values[k].value.language

(***************************************************************************)
(* Specification Decode: decode_edit applied to raw bytes: short and       *)
(* mis-tagged inputs, compressed inputs with every relation between the    *)
(* declared and the actual size, and edits whose dictionaries repeat ids.  *)
(***************************************************************************)
MaxDictLen == 3

\* the bytes of an edit without authors whose dictionaries are those of b,
\* followed by the given op section
WireEdit(b, op_count, ops_bytes) ==
    MAGIC_UNCOMPRESSED \o write_byte(FORMAT_VERSION)
    \o write_id(EditId) \o write_string(<<>>) \o write_id_vec(<<>>)
    \o write_signed_varint(U64Zero)
    \o write_dictionaries(b) \o write_contexts(b)
    \o write_varint(USize(op_count)) \o ops_bytes

SmallEdit ==
    encode_edit(MkEdit([name |-> <<>>, authors |-> <<>>, created_at |-> U64Zero],
                       <<IdOp(OP_DELETE_ENTITY, E1)>>)).bytes

MagicInputs ==
    Let({ <<>>, <<71>>, <<71, 82, 67>>, MAGIC_UNCOMPRESSED, <<71, 82, 67, 51>>,
          <<0, 0, 0, 0>>, <<82, 67, 50, 90>>, MAGIC_COMPRESSED }, LAMBDA heads :
        Let({0, 1, 2, 89, 91, 255}, LAMBDA versions :
        Let({ <<>>, SubSeq(SmallEdit, 6, Len(SmallEdit)), SubSeq(SmallEdit, 6, 30) }, LAMBDA bodies :
        heads
        \cup { MAGIC_UNCOMPRESSED \o <<v>> \o t : v \in versions, t \in bodies }
        \cup { <<71, 82, 67, 51>> \o <<v>> \o t : v \in {1, 90}, t \in bodies }
        \cup { <<103, 114, 99, 50>> \o <<v>> \o t : v \in {1, 90}, t \in bodies })))

\* the sizes a compressed input declares
DeclaredSizes ==
    { U64Zero, U64FromNat(Len(SmallEdit) - 1), U64FromNat(Len(SmallEdit)),
      U64FromNat(Len(SmallEdit) + 1), U64FromNat(MAX_EDIT_SIZE),
      U64FromNat(MAX_EDIT_SIZE + 1), U64Shl(1, 35), I64_MIN }

CompressedStreams ==
    { zstd_encode_all(SmallEdit), zstd_encode_all(<<>>),
      zstd_encode_all(SubSeq(SmallEdit, 1, 20)),
      ZSTD_MAGIC \o <<1>> \o SmallEdit, ZSTD_MAGIC \o <<1>>,
      <<>>, <<1, 2, 3, 4, 5, 6>>, ZSTD_MAGIC }

CompressedInputs ==
    { MAGIC_COMPRESSED \o write_varint(n) \o z : n \in DeclaredSizes, z \in CompressedStreams }
    \cup { MAGIC_COMPRESSED \o <<128>>, MAGIC_COMPRESSED \o <<128, 128, 128>> }

DictNames == <<"properties", "relation_types", "languages", "units", "objects", "context_ids">>

\* a dictionary section in which table k holds ids and table k2 (if any) holds E1
WireDicts(k, ids, k2) ==
    LET table(i) == IF i = k THEN ids ELSE IF i = k2 THEN <<E1>> ELSE <<>>
    IN  [DictionaryBuilder_new EXCEPT
            !.properties = [i \in 1..Len(table(1)) |-> <<table(1)[i], DT_Text>>],
            !.relation_types = table(2), !.languages = table(3), !.units = table(4),
            !.objects = table(5), !.context_ids = table(6)]

DictTables ==
    UNION { { WireDicts(k, ids, k2) :
                  ids \in SeqsUpTo({E1, E2}, MaxDictLen), k2 \in {0, (k % 6) + 1} } :
            k \in 1..6 }

\* op sections: none, one valid op, one op with an unknown tag
OpSections ==
    { [count |-> 0, bytes |-> <<>>],
      [count |-> 1, bytes |-> write_byte(OP_CREATE_ENTITY) \o write_id(R1) \o write_varint(U64Zero)],
      [count |-> 1, bytes |-> <<238>>] }

InitDecode ==
    /\ pc = "bytes"
    /\ edit = Nil /\ encoded = Nil /\ decoded = Nil /\ result = Nil
    /\ \/ /\ other = Nil
          /\ data \in MagicInputs \cup CompressedInputs
          /\ tail \in (IF Len(data) >= 5 /\ SubSeq(data, 1, 5) # MAGIC_COMPRESSED
                       THEN {0, MAX_EDIT_SIZE} ELSE {0})
       \/ /\ other \in [dicts : DictTables, ops : OpSections]
          /\ data = WireEdit(other.dicts, other.ops.count, other.ops.bytes)
          /\ tail = 0

NextDecode == DecodeBytes

SpecDecode == InitDecode /\ [][NextDecode]_vars

\* the input begins with GRC2Z / with GRC2
BeginsCompressed == Len(data) >= 5 /\ SubSeq(data, 1, 5) = MAGIC_COMPRESSED

BeginsUncompressed == Len(data) >= 4 /\ SubSeq(data, 1, 4) = MAGIC_UNCOMPRESSED

\* the input has a version byte outside [MIN_FORMAT_VERSION, FORMAT_VERSION]
BadVersion == Len(data) >= 5 /\ (data[5] < MIN_FORMAT_VERSION \/ data[5] > FORMAT_VERSION)

\* the result of the compressed path: decompression, then the owned decoder
CompressedPath ==
    Let(decompress_zstd(SubSeq(data, 6, Len(data)), tail), LAMBDA z :
        IF z.err # NoErr THEN z
        ELSE IF z.val.len > MAX_EDIT_SIZE THEN RErrWith("LengthExceedsLimit", "edit", 0)
        ELSE decode_edit_owned(z.val.bytes))

\* C6 as stated: an input shorter than 4 bytes fails with UnexpectedEof; an
\* input that begins with GRC2Z takes the compressed path, otherwise one
\* that begins with GRC2 takes the uncompressed path, and any other fails
\* with InvalidMagic carrying its first four bytes; on the uncompressed path
\* a version byte out of range fails with UnsupportedVersion carrying it.
C6_Original ==
    pc = "bytes_decoded" =>
        /\ Len(data) + tail < 4 => result.err = "UnexpectedEof"
        /\ BeginsCompressed => result = CompressedPath
        /\ (BeginsUncompressed /\ ~BeginsCompressed /\ BadVersion) =>
              result.err = "UnsupportedVersion" /\ result.val = data[5]
        /\ (Len(data) >= 4 /\ ~BeginsUncompressed) =>
              result.err = "InvalidMagic" /\ result.val = SubSeq(data, 1, 4)

\* C6: as above, with the size check of the uncompressed path: an input
\* longer than MAX_EDIT_SIZE that begins with GRC2 (and not GRC2Z) fails
\* with LengthExceedsLimit whatever its version byte; at most MAX_EDIT_SIZE
\* bytes long, it is decoded in place and a version byte out of range fails
\* with UnsupportedVersion carrying that byte.
C6_MagicDispatch ==
    pc = "bytes_decoded" =>
        /\ Len(data) + tail < 4 => result.err = "UnexpectedEof"
        /\ BeginsCompressed => result = CompressedPath
        /\ (BeginsUncompressed /\ ~BeginsCompressed) =>
              /\ Len(data) + tail > MAX_EDIT_SIZE =>
                    result.err = "LengthExceedsLimit" /\ result.val = "edit"
              /\ Len(data) + tail <= MAX_EDIT_SIZE =>
                    /\ result = decode_edit_borrowed(data)
                    /\ BadVersion =>
                          result.err = "UnsupportedVersion" /\ result.val = data[5]
        /\ (Len(data) >= 4 /\ ~BeginsUncompressed) =>
              result.err = "InvalidMagic" /\ result.val = SubSeq(data, 1, 4)

C6_Witness ==
    /\ pc = "bytes_decoded"
    /\ BeginsUncompressed /\ ~BeginsCompressed /\ BadVersion
    /\ Len(data) > 5 /\ tail = 0
    /\ result.err = "UnsupportedVersion"

\* C7: a GRC2Z input whose declared size exceeds MAX_EDIT_SIZE fails with
\* LengthExceedsLimit whether or not its stream can be decompressed; one
\* whose stream decompresses to a length other than the declared size fails
\* with UncompressedSizeMismatch; an edit is returned only when the declared
\* size equals the decompressed length and both are at most MAX_EDIT_SIZE.
C7_CompressedSizes ==
    (pc = "bytes_decoded" /\ BeginsCompressed) =>
        Let(read_varint(data, 5), LAMBDA declared :
            Let(zstd_read_to_end(SubSeq(data, declared.pos + 1, Len(data)), tail), LAMBDA z :
            declared.err = NoErr =>
              /\ U64Gt(declared.val, MAX_EDIT_SIZE) =>
                    result.err = "LengthExceedsLimit" /\ result.val = "uncompressed_size"
              /\ (~U64Gt(declared.val, MAX_EDIT_SIZE) /\ z.err = NoErr
                  /\ z.len # U64Small(declared.val)) =>
                    /\ result.err = "UncompressedSizeMismatch"
                    /\ result.val = [declared |-> declared.val, actual |-> z.len]
              /\ result.err = NoErr =>
                    /\ z.err = NoErr
                    /\ z.len = U64Small(declared.val)
                    /\ z.len <= MAX_EDIT_SIZE))

C7_Witness ==
    /\ pc = "bytes_decoded" /\ BeginsCompressed
    /\ result.err = "UncompressedSizeMismatch"
    /\ result.val.actual = Len(SmallEdit)
    /\ decode_edit_owned(SubSeq(data, Len(data) - Len(SmallEdit) + 1, Len(data))).err = NoErr

\* the id lists of the six tables of a dictionary section
TableIds(b) ==
    << [i \in 1..Len(b.properties) |-> b.properties[i][1]],
       b.relation_types, b.languages, b.units, b.objects, b.context_ids >>

\* the index of the first entry of s that repeats an earlier one
SecondOccurrence(s) ==
    CHOOSE j \in 1..Len(s) :
        /\ \E i \in 1..(j - 1) : s[i] = s[j]
        /\ \A k \in 1..(j - 1) : \A i \in 1..(k - 1) : s[i] # s[k]

\* the offset just after entry j of table k of the edits of WireEdit
EntryEnd(b, k, j) ==
    LET width(i) == IF i = 1 THEN 17 ELSE 16
        size(i) == 1 + Len(TableIds(b)[i]) * width(i)
        RECURSIVE before(_)
        before(i) == IF i = 0 THEN 24 ELSE before(i - 1) + size(i)
    IN  before(k - 1) + 1 + (j - 1) * width(k) + 16

\* C8: an edit one of whose dictionaries lists an id twice fails with
\* DuplicateDictionaryEntry naming the first such dictionary and the id,
\* raised when the reader is just past the second occurrence, whatever the
\* ops that follow; an id that occurs once in each of two dictionaries is
\* accepted.
C8_DuplicateDictionaryEntry ==
    (pc = "bytes_decoded" /\ DOMAIN other # {}) =>
        Let(TableIds(other.dicts), LAMBDA t :
            Let({k \in 1..6 : HasDuplicate(t[k])}, LAMBDA dups :
            Let(CHOOSE k \in dups : \A m \in dups : k <= m, LAMBDA k0 :
            Let(SecondOccurrence(t[k0]), LAMBDA j0 :
            /\ dups # {} =>
                  /\ result.err = "DuplicateDictionaryEntry"
                  /\ result.val = [dict |-> DictNames[k0], id |-> t[k0][j0]]
                  /\ result.pos = EntryEnd(other.dicts, k0, j0)
            /\ dups = {} =>
                  result.err = (IF other.ops.bytes = <<238>> THEN "InvalidOpType" ELSE NoErr)))))

C8_Witness ==
    /\ pc = "bytes_decoded" /\ DOMAIN other # {}
    /\ result.err = "DuplicateDictionaryEntry"
    /\ result.val.dict = "objects"
    /\ Len(other.dicts.objects) = 3
    /\ other.dicts.objects[1] # other.dicts.objects[2]
    /\ other.dicts.context_ids = <<E1>>
    /\ other.ops.bytes = <<238>>

(***************************************************************************)
(* Specification Flags: decode_edit applied to edits whose one op carries  *)
(* every value of a flag byte, followed by arbitrary bytes; encode_edit    *)
(* applied to ops with every combination of optional fields.               *)
(***************************************************************************)
FlagDicts ==
    [DictionaryBuilder_new EXCEPT !.properties = <<<<P1, DT_Text>>>>,
                                  !.languages = <<L1>>, !.objects = <<E1>>]

\* the bytes of an op up to its flag byte, the entity and the property
\* being entry 0 of their dictionaries
FlagPrefix(kind) ==
    CASE kind = OP_UPDATE_ENTITY -> write_byte(OP_UPDATE_ENTITY) \o write_varint(U64Zero)
      [] kind = OP_UPDATE_RELATION -> write_byte(OP_UPDATE_RELATION) \o write_varint(U64Zero)
      [] kind = OP_CREATE_VALUE_REF ->
            write_byte(OP_CREATE_VALUE_REF) \o write_id(V1)
            \o write_varint(U64Zero) \o write_varint(U64Zero)

\* what follows the flag bytes
FlagRests == { <<>>, <<0>>, <<1, 0>>, [i \in 1..17 |-> 255] }

FlagInputs ==
    [kind : {OP_UPDATE_ENTITY, OP_CREATE_VALUE_REF},
     flags : {<<f>> : f \in 0..255}, rest : FlagRests]
    \cup [kind : {OP_UPDATE_RELATION},
          flags : {<<f, g>> : f \in 0..255, g \in {0, 31}}
                  \cup {<<g, f>> : f \in 0..255, g \in {0, 31}}
                  \cup {<<32, 32>>, <<255, 255>>},
          rest : FlagRests]
    \cup [kind : {OP_UPDATE_RELATION}, flags : {<<f>> : f \in 0..255}, rest : {<<>>}]

\* single-op edits covering every combination of optional fields
FlagEdits ==
    Let([name |-> <<>>, authors |-> <<AuthorA>>, created_at |-> U64Zero], LAMBDA h :
        LET opt(x) == {None, x}
    IN  { MkEdit(h, <<UpdateEntity(E1, sets, unsets, None)>>) :
              sets \in {<<>>, <<PV(P1, ValueText(<<97>>, L1))>>},
              unsets \in {<<>>, <<Unset(P2, "All", None)>>} }
        \cup { MkEdit(h, <<UpdateRelation(R1, fs, fv, ts, tv, pos, unset)>>) :
                  fs \in opt(S1), fv \in opt(V1), ts \in opt(S1), tv \in opt(V1),
                  pos \in {<<>>, <<<<97>>>>},
                  unset \in {<<>>, UnsetRelationFields, <<"Position">>, <<"ToSpace", "FromSpace">>} }
        \cup { MkEdit(h, <<CreateValueRef(V1, E1, P1, l, s)>>) : l \in opt(L1), s \in opt(S1) })

InitFlags ==
    /\ encoded = Nil /\ decoded = Nil /\ result = Nil /\ tail = 0
    /\ \/ /\ pc = "bytes"
          /\ edit = Nil
          /\ other \in FlagInputs
          /\ data = WireEdit(FlagDicts, 1, FlagPrefix(other.kind) \o other.flags \o other.rest)
       \/ /\ pc = "edit"
          /\ edit \in FlagEdits
          /\ other = Nil /\ data = Nil

NextFlags == DecodeBytes \/ EncodeFast \/ EncodeCanonical

SpecFlags == InitFlags /\ [][NextFlags]_vars

\* the reserved mask of each flag byte of an op kind, and the name the
\* decoder gives the byte
ReservedMasks(kind) ==
    CASE kind = OP_UPDATE_ENTITY -> <<252>>
      [] kind = OP_UPDATE_RELATION -> <<224, 224>>
      [] kind = OP_CREATE_VALUE_REF -> <<252>>

FlagNames(kind) ==
    CASE kind = OP_UPDATE_ENTITY -> <<"UpdateEntity flags">>
      [] kind = OP_UPDATE_RELATION -> <<"UpdateRelation set_flags", "UpdateRelation unset_flags">>
      [] kind = OP_CREATE_VALUE_REF -> <<"CreateValueRef flags">>

\* the flag bytes of the input that have a reserved bit set
ReservedSet(in) ==
    {i \in 1..Len(in.flags) : BitAnd(in.flags[i], ReservedMasks(in.kind)[i]) # 0}

\* the flag bytes the encoder wrote for the one op of the edit
EmittedFlags ==
    Let(Len(assemble(edit, edit.authors, encoded.b, <<>>)), LAMBDA start :
        Let(CASE edit.ops[1].op = OP_UPDATE_ENTITY -> <<3>>
              [] edit.ops[1].op = OP_UPDATE_RELATION -> <<3, 4>>
              [] edit.ops[1].op = OP_CREATE_VALUE_REF -> <<20>>, LAMBDA at :
        [i \in 1..Len(at) |-> encoded.bytes[start + at[i]]]))

EncoderFlagsClean ==
    pc \in {"fast", "canonical"} =>
        /\ encoded.err = NoErr
        /\ \A i \in 1..Len(EmittedFlags) :
              BitAnd(EmittedFlags[i], ReservedMasks(edit.ops[1].op)[i]) = 0

\* C9 as stated: a flag byte with a reserved bit set makes the decode fail
\* with ReservedBitsSet whatever the other bits and the rest of the input;
\* the encoder emits no flag byte with a reserved bit set.
C9_Original ==
    /\ (pc = "bytes_decoded" /\ ReservedSet(other) # {}) =>
          result.err = "ReservedBitsSet"
    /\ EncoderFlagsClean

\* C9: an UpdateEntity or CreateValueRef flag byte with a reserved bit set
\* makes the decode fail with ReservedBitsSet whatever follows it; so does
\* an UpdateRelation set-flags or unset-flags byte when both flag bytes are
\* in the input (the error names the first offending byte), while an input
\* that ends after the set-flags byte fails with UnexpectedEof; the encoder
\* emits no flag byte with a reserved bit set.
C9_ReservedBits ==
    /\ (pc = "bytes_decoded" /\ ReservedSet(other) # {}) =>
          IF Len(other.flags) = Len(ReservedMasks(other.kind))
          THEN /\ result.err = "ReservedBitsSet"
               /\ result.val = FlagNames(other.kind)[CHOOSE i \in ReservedSet(other) :
                                                         \A j \in ReservedSet(other) : i <= j]
          ELSE result.err = "UnexpectedEof"
    /\ (pc = "bytes_decoded" /\ ReservedSet(other) = {}) => result.err # "ReservedBitsSet"
    /\ EncoderFlagsClean

C9_Witness ==
    /\ pc = "bytes_decoded"
    /\ other.kind = OP_UPDATE_RELATION
    /\ Len(other.flags) = 2
    /\ ReservedSet(other) = {2}
    /\ other.flags[1] = 31
    /\ other.rest # <<>>
    /\ result.err = "ReservedBitsSet"

(***************************************************************************)
(* Specification Limits: the length checks of encode_edit and decode_edit. *)
(* An edit with a list longer than its limit is too large to hold as a     *)
(* value, so the encoder side works on the lengths of an edit: the state   *)
(* holds, for an edit with one op and one value, the length of every       *)
(* bounded field and the sizes its dictionaries reach, and the checks of   *)
(* the encoder are those of the code applied to these lengths.  The        *)
(* decoder side is decode_edit itself on a byte stream that is well formed *)
(* up to one length prefix and declares that length.                       *)
(***************************************************************************)
MaxOver == 2

LimitSites ==
    <<"name", "authors", "ops", "values", "set_properties", "unset_values",
      "text", "schedule", "bytes", "embedding.dims",
      "properties", "relation_types", "languages", "units", "objects",
      "context_ids", "contexts", "context_edges">>

\* the configured maximum of each bounded length
LimitOf(site) ==
    CASE site = "name" -> MAX_STRING_LEN
      [] site = "text" -> MAX_STRING_LEN
      [] site = "schedule" -> MAX_STRING_LEN
      [] site = "bytes" -> MAX_BYTES_LEN
      [] site = "authors" -> MAX_AUTHORS
      [] site = "ops" -> MAX_OPS_PER_EDIT
      [] site \in {"values", "set_properties", "unset_values"} -> MAX_VALUES_PER_ENTITY
      [] site = "embedding.dims" -> MAX_EMBEDDING_DIMS
      [] OTHER -> MAX_DICT_SIZE

\* the lengths of the smallest edit that has every bounded field: one op
\* with one value
SmallLengths ==
    [name |-> 0, authors |-> 1, ops |-> 1,
     op |-> OP_CREATE_ENTITY, values |-> 1, set_properties |-> 0, unset_values |-> 0,
     context_edges |-> 0,
     dt |-> DT_Text, text |-> 1, schedule |-> 0, bytes |-> 0,
     sub_type |-> Int8, dims |-> 0, embedding_data |-> 0,
     properties |-> 1, relation_types |-> 0, languages |-> 0, units |-> 0,
     objects |-> 0, context_ids |-> 0, contexts |-> 0]

\* the lengths of an edit in which the length named by site is n
LengthsWith(site, n) ==
    CASE site = "name" -> [SmallLengths EXCEPT !.name = n]
      [] site = "authors" -> [SmallLengths EXCEPT !.authors = n]
      [] site = "ops" -> [SmallLengths EXCEPT !.ops = n]
      [] site = "values" -> [SmallLengths EXCEPT !.values = n]
      [] site = "set_properties" ->
            [SmallLengths EXCEPT !.op = OP_UPDATE_ENTITY, !.values = 0, !.set_properties = n,
                                 !.objects = 1]
      [] site = "unset_values" ->
            [SmallLengths EXCEPT !.op = OP_UPDATE_ENTITY, !.values = 0, !.unset_values = n,
                                 !.objects = 1]
      [] site = "text" -> [SmallLengths EXCEPT !.text = n]
      [] site = "schedule" -> [SmallLengths EXCEPT !.dt = DT_Schedule, !.text = 0, !.schedule = n]
      [] site = "bytes" -> [SmallLengths EXCEPT !.dt = DT_Bytes, !.text = 0, !.bytes = n]
      [] site = "embedding.dims" ->
            [SmallLengths EXCEPT !.dt = DT_Embedding, !.text = 0, !.dims = n,
                                 !.embedding_data = bytes_for_dims(Int8, n)]
      [] site = "properties" -> [SmallLengths EXCEPT !.properties = n]
      [] site = "relation_types" -> [SmallLengths EXCEPT !.relation_types = n]
      [] site = "languages" -> [SmallLengths EXCEPT !.languages = n]
      [] site = "units" -> [SmallLengths EXCEPT !.units = n]
      [] site = "objects" -> [SmallLengths EXCEPT !.objects = n]
      [] site = "context_ids" -> [SmallLengths EXCEPT !.context_ids = n]
      [] site = "contexts" -> [SmallLengths EXCEPT !.contexts = n, !.context_ids = 1]
      [] site = "context_edges" ->
            [SmallLengths EXCEPT !.context_edges = n, !.contexts = 1, !.context_ids = 1]

\* validate_context_limits on the number of edges of the op's context
validate_context_limits_len(l) ==
    IF l.context_edges > MAX_DICT_SIZE THEN "LengthExceedsLimit" ELSE NoErr

\* validate_edit_inputs on the lengths of the edit
validate_edit_inputs_len(l) ==
    IF l.name > MAX_STRING_LEN THEN "LengthExceedsLimit"
    ELSE IF l.authors > MAX_AUTHORS THEN "LengthExceedsLimit"
    ELSE IF l.ops > MAX_OPS_PER_EDIT THEN "LengthExceedsLimit"
    ELSE IF l.op = OP_CREATE_ENTITY /\ l.values > MAX_VALUES_PER_ENTITY
         THEN "LengthExceedsLimit"
    ELSE IF l.op = OP_UPDATE_ENTITY /\ l.set_properties > MAX_VALUES_PER_ENTITY
         THEN "LengthExceedsLimit"
    ELSE IF l.op = OP_UPDATE_ENTITY /\ l.unset_values > MAX_VALUES_PER_ENTITY
         THEN "LengthExceedsLimit"
    ELSE validate_context_limits_len(l)

\* encode_value on the lengths of the value: strings and bytes are written
\* behind their length whatever it is; an embedding is tested for the
\* number of bytes its dimensions need and nothing else
encode_value_len(l) ==
    CASE l.dt = DT_Text -> NoErr
      [] l.dt = DT_Schedule -> NoErr
      [] l.dt = DT_Bytes -> NoErr
      [] l.dt = DT_Embedding ->
            IF l.embedding_data # bytes_for_dims(l.sub_type, l.dims)
            THEN "EmbeddingDimensionMismatch" ELSE NoErr
      [] OTHER -> NoErr

\* DictionaryBuilder::validate_limits on the sizes of the dictionaries
validate_limits_len(l) ==
    IF l.properties > MAX_DICT_SIZE THEN "LengthExceedsLimit"
    ELSE IF l.relation_types > MAX_DICT_SIZE THEN "LengthExceedsLimit"
    ELSE IF l.languages > MAX_DICT_SIZE THEN "LengthExceedsLimit"
    ELSE IF l.units > MAX_DICT_SIZE THEN "LengthExceedsLimit"
    ELSE IF l.objects > MAX_DICT_SIZE THEN "LengthExceedsLimit"
    ELSE IF l.context_ids > MAX_DICT_SIZE THEN "LengthExceedsLimit"
    ELSE IF l.contexts > MAX_DICT_SIZE THEN "LengthExceedsLimit"
    ELSE IF l.contexts > 0 /\ l.context_edges > MAX_DICT_SIZE THEN "LengthExceedsLimit"
    ELSE NoErr

\* encode_edit on the lengths of the edit: the error of the first failing
\* check, or NoErr
encode_edit_len(l) ==
    IF validate_edit_inputs_len(l) # NoErr THEN validate_edit_inputs_len(l)
    ELSE IF l.ops > 0 /\ (l.values > 0 \/ l.set_properties > 0) /\ encode_value_len(l) # NoErr
         THEN encode_value_len(l)
    ELSE validate_limits_len(l)

\* a dictionary section for an edit whose one property has the data type dt
LimitDicts(dt) ==
    [DictionaryBuilder_new EXCEPT !.properties = <<<<P1, dt>>>>, !.objects = <<E1>>]

\* the bytes of an edit up to and including the length prefix named by
\* site, which declares n
LimitStream(site, n) ==
    Let(write_varint(U64FromNat(n)), LAMBDA prefix :
    Let(MAGIC_UNCOMPRESSED \o write_byte(FORMAT_VERSION) \o write_id(EditId), LAMBDA h0 :
    Let(h0 \o write_string(<<>>) \o write_id_vec(<<>>) \o write_signed_varint(U64Zero),
        LAMBDA h :
    Let(write_byte(OP_CREATE_ENTITY) \o write_id(E1) \o write_varint(USize(1))
        \o write_varint(U64Zero), LAMBDA one_value :
    CASE site = "name" -> h0 \o prefix
      [] site = "authors" -> h0 \o write_string(<<>>) \o prefix
      [] site = "properties" -> h \o prefix
      [] site = "relation_types" -> h \o <<0>> \o prefix
      [] site = "languages" -> h \o <<0, 0>> \o prefix
      [] site = "units" -> h \o <<0, 0, 0>> \o prefix
      [] site = "objects" -> h \o <<0, 0, 0, 0>> \o prefix
      [] site = "context_ids" -> h \o <<0, 0, 0, 0, 0>> \o prefix
      [] site = "contexts" -> h \o write_dictionaries(WireDicts(6, <<E1>>, 0)) \o prefix
      [] site = "context_edges" ->
            h \o write_dictionaries(WireDicts(6, <<E1>>, 0)) \o write_varint(USize(1))
            \o write_varint(U64Zero) \o prefix
      [] site = "ops" -> WireEdit(DictionaryBuilder_new, n, <<>>)
      [] site = "values" ->
            WireEdit(LimitDicts(DT_Text), 1,
                     write_byte(OP_CREATE_ENTITY) \o write_id(E1) \o prefix)
      [] site = "set_properties" ->
            WireEdit(LimitDicts(DT_Text), 1,
                     write_byte(OP_UPDATE_ENTITY) \o write_varint(U64Zero) \o <<1>> \o prefix)
      [] site = "unset_values" ->
            WireEdit(LimitDicts(DT_Text), 1,
                     write_byte(OP_UPDATE_ENTITY) \o write_varint(U64Zero) \o <<2>> \o prefix)
      [] site = "text" -> WireEdit(LimitDicts(DT_Text), 1, one_value \o prefix)
      [] site = "schedule" -> WireEdit(LimitDicts(DT_Schedule), 1, one_value \o prefix)
      [] site = "bytes" -> WireEdit(LimitDicts(DT_Bytes), 1, one_value \o prefix)
      [] site = "embedding.dims" ->
            WireEdit(LimitDicts(DT_Embedding), 1,
                     one_value \o write_byte(Int8) \o prefix)))))

\* lengths at and around the limit of a site, and small ones
LimitLengths(site) ==
    {0, 1} \cup { LimitOf(site) + k : k \in (0 - 1)..MaxOver }

LimitInputs ==
    UNION { [site : {LimitSites[i]}, n : LimitLengths(LimitSites[i])] :
            i \in 1..Len(LimitSites) }

\* encode_edit called on an edit of the lengths held in edit
EncodeLengths ==
    /\ pc = "lengths"
    /\ encoded' = EErr(encode_edit_len(edit), Nil)
    /\ pc' = "lengths_encoded"
    /\ UNCHANGED <<edit, other, decoded, data, tail, result>>

InitLimits ==
    /\ encoded = Nil /\ decoded = Nil /\ result = Nil /\ tail = 0
    /\ other \in LimitInputs
    /\ \/ /\ pc = "lengths"
          /\ edit = LengthsWith(other.site, other.n)
          /\ data = Nil
       \/ /\ pc = "bytes"
          /\ edit = Nil
          /\ data = LimitStream(other.site, other.n)

NextLimits == EncodeLengths \/ DecodeBytes

SpecLimits == InitLimits /\ [][NextLimits]_vars

\* C11 as stated: a length over its configured maximum is rejected by the
\* encoder and by the decoder.
C11_Original ==
    other.n > LimitOf(other.site) =>
        /\ pc = "lengths_encoded" => encoded.err # NoErr
        /\ pc = "bytes_decoded" => result.err # NoErr

(***************************************************************************)
(* Specification Refs: decode_edit applied to edits that are well formed   *)
(* but for one dictionary reference, which takes every value around the    *)
(* size of its dictionary and values beyond 32 bits.                       *)
(***************************************************************************)
MaxRefDict == 2

RefIds == <<MkId(7, 1), MkId(7, 2), MkId(7, 3), MkId(7, 4)>>

\* every place of the wire format that holds a dictionary reference: its
\* name, the dictionary it refers to, and whether 0 stands for "none"
RefSites ==
    { [site |-> "value.property", dict |-> "properties", opt |-> FALSE],
      [site |-> "unset.property", dict |-> "properties", opt |-> FALSE],
      [site |-> "value_ref.property", dict |-> "properties", opt |-> FALSE],
      [site |-> "update_entity.id", dict |-> "objects", opt |-> FALSE],
      [site |-> "delete_entity.id", dict |-> "objects", opt |-> FALSE],
      [site |-> "restore_entity.id", dict |-> "objects", opt |-> FALSE],
      [site |-> "delete_relation.id", dict |-> "objects", opt |-> FALSE],
      [site |-> "restore_relation.id", dict |-> "objects", opt |-> FALSE],
      [site |-> "update_relation.id", dict |-> "objects", opt |-> FALSE],
      [site |-> "relation.from", dict |-> "objects", opt |-> FALSE],
      [site |-> "relation.to", dict |-> "objects", opt |-> FALSE],
      [site |-> "value_ref.entity", dict |-> "objects", opt |-> FALSE],
      [site |-> "relation.type", dict |-> "relation_types", opt |-> FALSE],
      [site |-> "edge.type", dict |-> "relation_types", opt |-> FALSE],
      [site |-> "context.root", dict |-> "context_ids", opt |-> FALSE],
      [site |-> "edge.to", dict |-> "context_ids", opt |-> FALSE],
      [site |-> "text.language", dict |-> "languages", opt |-> TRUE],
      [site |-> "value_ref.language", dict |-> "languages", opt |-> TRUE],
      [site |-> "unset.language", dict |-> "languages", opt |-> TRUE],
      [site |-> "int64.unit", dict |-> "units", opt |-> TRUE],
      [site |-> "float64.unit", dict |-> "units", opt |-> TRUE],
      [site |-> "decimal.unit", dict |-> "units", opt |-> TRUE] }

\* 2^32 + n for n < 2^28, and 2^64 - 1
U64Above32(n) == [U64FromNat(n) EXCEPT ![5] = 16]


\* the references tried against a dictionary of the given size
RefIndices(size) ==
    { U64FromNat(k) : k \in 0..(size + 1) }
    \cup { U64Above32(k) : k \in 0..(size + 1) }
    \cup { SENTINEL, U64_MAX }

\* the data type the properties of the edit have
RefDataType(site) ==
    CASE site \in {"text.language", "value_ref.language"} -> DT_Text
      [] site = "int64.unit" -> DT_Int64
      [] site = "float64.unit" -> DT_Float64
      [] site = "decimal.unit" -> DT_Decimal
      [] OTHER -> DT_Bool

\* dictionaries in which the one named dict has size entries and the others
\* one entry
RefDicts(r, size) ==
    LET ids(name) == SubSeq(RefIds, 1, IF name = r.dict THEN size ELSE 1)
    IN  [DictionaryBuilder_new EXCEPT
            !.properties = [i \in 1..Len(ids("properties")) |->
                               <<ids("properties")[i], RefDataType(r.site)>>],
            !.relation_types = ids("relation_types"), !.languages = ids("languages"),
            !.units = ids("units"), !.objects = ids("objects"),
            !.context_ids = ids("context_ids")]

\* the contexts section and the op section of an edit whose reference at the
\* site is index; every other reference is entry 0 of its dictionary
RefBody(site, index) ==
    Let(write_varint(index), LAMBDA x :
    Let(write_id(V1), LAMBDA id :
    Let(write_byte(OP_CREATE_ENTITY) \o id \o <<1, 0>>, LAMBDA value :
    CASE site = "context.root" -> <<1>> \o x \o <<0>> \o <<0>>
      [] site = "edge.type" -> <<1, 0, 1>> \o x \o <<0>> \o <<0>>
      [] site = "edge.to" -> <<1, 0, 1, 0>> \o x \o <<0>>
      [] site = "value.property" ->
            <<0, 1>> \o write_byte(OP_CREATE_ENTITY) \o id \o <<1>> \o x \o <<1>>
      [] site = "unset.property" ->
            <<0, 1>> \o write_byte(OP_UPDATE_ENTITY) \o <<0, 2, 1>> \o x \o <<0>>
      [] site = "unset.language" ->
            <<0, 1>> \o write_byte(OP_UPDATE_ENTITY) \o <<0, 2, 1, 0>> \o x
      [] site = "value_ref.property" ->
            <<0, 1>> \o write_byte(OP_CREATE_VALUE_REF) \o id \o <<0>> \o x \o <<0>>
      [] site = "value_ref.entity" ->
            <<0, 1>> \o write_byte(OP_CREATE_VALUE_REF) \o id \o x \o <<0, 0>>
      [] site = "value_ref.language" ->
            <<0, 1>> \o write_byte(OP_CREATE_VALUE_REF) \o id \o <<0, 0, 1>> \o x
      [] site = "update_entity.id" -> <<0, 1>> \o write_byte(OP_UPDATE_ENTITY) \o x \o <<0>>
      [] site = "delete_entity.id" -> <<0, 1>> \o write_byte(OP_DELETE_ENTITY) \o x
      [] site = "restore_entity.id" -> <<0, 1>> \o write_byte(OP_RESTORE_ENTITY) \o x
      [] site = "delete_relation.id" -> <<0, 1>> \o write_byte(OP_DELETE_RELATION) \o x
      [] site = "restore_relation.id" -> <<0, 1>> \o write_byte(OP_RESTORE_RELATION) \o x
      [] site = "update_relation.id" ->
            <<0, 1>> \o write_byte(OP_UPDATE_RELATION) \o x \o <<0, 0>>
      [] site = "relation.type" ->
            <<0, 1>> \o write_byte(OP_CREATE_RELATION) \o id \o x \o <<0, 0, 0>>
      [] site = "relation.from" ->
            <<0, 1>> \o write_byte(OP_CREATE_RELATION) \o id \o <<0, 0>> \o x \o <<0>>
      [] site = "relation.to" ->
            <<0, 1>> \o write_byte(OP_CREATE_RELATION) \o id \o <<0, 0, 0>> \o x
      [] site = "text.language" -> <<0, 1>> \o value \o <<1, 97>> \o x
      [] site = "int64.unit" -> <<0, 1>> \o value \o <<2>> \o x
      [] site = "float64.unit" -> <<0, 1>> \o value \o <<0, 0, 0, 0, 0, 0, 0, 0>> \o x
      [] site = "decimal.unit" -> <<0, 1>> \o value \o <<0, 0, 2>> \o x)))

RefStream(r, size, index) ==
    MAGIC_UNCOMPRESSED \o write_byte(FORMAT_VERSION)
    \o write_id(EditId) \o write_string(<<>>) \o write_id_vec(<<>>)
    \o write_signed_varint(U64Zero)
    \o write_dictionaries(RefDicts(r, size)) \o RefBody(r.site, index)

RefInputs ==
    UNION { [ref : RefSites, size : {size}, index : RefIndices(size)] :
            size \in 0..MaxRefDict }

InitRefs ==
    /\ encoded = Nil /\ decoded = Nil /\ result = Nil /\ tail = 0 /\ edit = Nil
    /\ pc = "bytes"
    /\ other \in RefInputs
    /\ data = RefStream(other.ref, other.size, other.index)

NextRefs == DecodeBytes

SpecRefs == InitRefs /\ [][NextRefs]_vars

\* the reference of the input lies outside its dictionary
RefOutside(in) ==
    IF in.ref.opt
    THEN in.index # U64Zero /\ U64Lt(USize(in.size), in.index)
    ELSE ~U64Lt(in.index, USize(in.size))

\* the id the decoded edit holds where the reference stood
RefResolved(e, site) ==
    CASE site = "context.root" -> e.contexts[1].root_id
      [] site = "edge.type" -> e.contexts[1].edges[1].type_id
      [] site = "edge.to" -> e.contexts[1].edges[1].to_entity_id
      [] site \in {"value.property", "value_ref.property"} -> e.ops[1].property
      [] site = "unset.property" -> e.ops[1].unset_values[1].property
      [] site = "unset.language" -> e.ops[1].unset_values[1].language.id
      [] site = "value_ref.entity" -> e.ops[1].entity
      [] site = "value_ref.language" -> e.ops[1].language
      [] site = "relation.type" -> e.ops[1].relation_type
      [] site = "relation.from" -> e.ops[1].from
      [] site = "relation.to" -> e.ops[1].to
      [] site = "text.language" -> e.ops[1].values[1].value.language
      [] site \in {"int64.unit", "float64.unit", "decimal.unit"} -> e.ops[1].values[1].value.unit
      [] OTHER -> e.ops[1].id

\* C12 as stated: a reference outside its dictionary makes the decode fail
\* with IndexOutOfBounds (the value 0xFFFFFFFF of an unset language, which
\* stands for every language, is no reference); a reference inside it is
\* resolved to the entry it names.
C12_Original ==
    (pc = "bytes_decoded"
     /\ ~(other.ref.site = "unset.language" /\ other.index = SENTINEL)) =>
        IF RefOutside(other)
        THEN result.err = "IndexOutOfBounds"
        ELSE /\ result.err = NoErr
             /\ RefResolved(result.val, other.ref.site) =
                    (IF other.index = U64Zero /\ other.ref.opt THEN None
                     ELSE RefIds[U64Small(other.index) + (IF other.ref.opt THEN 0 ELSE 1)])

(***************************************************************************)
(* Specification Positions: encode_edit applied to edits whose one op is a *)
(* CreateRelation or an UpdateRelation with a position, and decode_edit    *)
(* applied to the wire form of such an op, for positions of every length   *)
(* around the limit and every kind of character.                           *)
(***************************************************************************)
MaxPosOver == 2

\* characters at the edges of [0-9A-Za-z], and other ASCII characters
PosChars == {0, 32, 45, 47, 48, 57, 58, 64, 65, 90, 91, 95, 96, 97, 122, 123, 127}

\* positions that are strings: runs of "a" of every length around the limit,
\* short strings holding one chosen character, strings with a two-byte
\* character
PositionStrings ==
    { [i \in 1..n |-> 97] : n \in {0, 1, 2, MAX_POSITION_LEN - 1}
                                  \cup { MAX_POSITION_LEN + k : k \in 0..MaxPosOver } }
    \cup UNION { { <<c>>, <<97, c>>, <<c, 97>>,
                   [i \in 1..MAX_POSITION_LEN |-> IF i = MAX_POSITION_LEN THEN c ELSE 97],
                   [i \in 1..(MAX_POSITION_LEN + 1) |-> IF i = 1 THEN c ELSE 97] } :
                 c \in PosChars }
    \cup { <<195, 169>>, <<97, 195, 169>> }

\* byte strings a stream can hold where a position stands
PositionBytes == PositionStrings \cup { <<128>>, <<97, 255>> }

PositionDicts ==
    [DictionaryBuilder_new EXCEPT !.relation_types = <<T1>>, !.objects = <<E1>>]

\* the bytes of a CreateRelation or UpdateRelation that has a position and
\* no other optional field
PositionOp(kind, pos) ==
    IF kind = OP_CREATE_RELATION
    THEN write_byte(OP_CREATE_RELATION) \o write_id(R1) \o write_varint(U64Zero)
         \o write_byte(Bit(5)) \o write_varint(U64Zero) \o write_varint(U64Zero)
         \o write_string(pos)
    ELSE write_byte(OP_UPDATE_RELATION) \o write_varint(U64Zero)
         \o write_byte(Bit(4)) \o write_byte(0) \o write_string(pos)

PositionEdit(kind, pos) ==
    MkEdit([name |-> <<>>, authors |-> <<>>, created_at |-> U64Zero],
           <<IF kind = OP_CREATE_RELATION
             THEN CreateRelation(R1, T1, E1, FALSE, E1, FALSE, [NoOpt EXCEPT !.position = <<pos>>])
             ELSE UpdateRelation(E1, None, None, None, None, <<pos>>, <<>>)>>)

InitPositions ==
    /\ encoded = Nil /\ decoded = Nil /\ result = Nil /\ tail = 0
    /\ \/ /\ pc = "edit"
          /\ other \in [kind : {OP_CREATE_RELATION, OP_UPDATE_RELATION}, pos : PositionStrings]
          /\ edit = PositionEdit(other.kind, other.pos)
          /\ data = Nil
       \/ /\ pc = "bytes"
          /\ other \in [kind : {OP_CREATE_RELATION, OP_UPDATE_RELATION}, pos : PositionBytes]
          /\ edit = Nil
          /\ data = WireEdit(PositionDicts, 1, PositionOp(other.kind, other.pos))

NextPositions == EncodeFast \/ EncodeCanonical \/ DecodeBytes

SpecPositions == InitPositions /\ [][NextPositions]_vars

\* 1 to 64 bytes, each in [0-9A-Za-z]
IsValidPosition(pos) ==
    /\ Len(pos) >= 1 /\ Len(pos) <= 64
    /\ \A i \in 1..Len(pos) : IsAlnum(pos[i])

\* C13 as stated: encode and decode accept a position if and only if it is
\* 1 to 64 bytes of [0-9A-Za-z]; the empty string, a string with another
\* character and a longer string are rejected.
C13_Original ==
    /\ pc \in {"fast", "canonical"} => (encoded.err = NoErr <=> IsValidPosition(other.pos))
    /\ pc = "bytes_decoded" => (result.err = NoErr <=> IsValidPosition(other.pos))

(***************************************************************************)
(* Specification Decimal: encode_edit applied to edits whose one value is  *)
(* a Decimal, and decode_edit applied to the wire form of such a value,    *)
(* for mantissas of both forms around the multiples of ten and exponents   *)
(* around zero and at the ends of the i32 and i64 ranges.                  *)
(***************************************************************************)
MaxMantissaLen == 2

\* a mantissa together with what it denotes: whether it is zero and the last
\* decimal digit of its absolute value
DecimalCase(mantissa, n) ==
    [mantissa |-> mantissa, zero |-> n = 0, last |-> (IF n < 0 THEN 0 - n ELSE n) % 10]

I64Cases ==
    { DecimalCase(I64Mantissa(I64FromInt(n)), n) :
          n \in {0, 1, 0 - 1, 5, 10, 0 - 10, 15, 100, 0 - 1230, 1230, 1231,
                 2147483640, 0 - 2147483640, 2147483647, 0 - 2147483647} }
    \cup { [mantissa |-> I64Mantissa(I64_MAX), zero |-> FALSE, last |-> 7],
           [mantissa |-> I64Mantissa(I64_MIN), zero |-> FALSE, last |-> 8] }

\* the integer a big-endian two's complement byte string denotes
RECURSIVE BigUnsigned(_)
BigUnsigned(bytes) ==
    IF bytes = <<>> THEN 0
    ELSE 256 * BigUnsigned(SubSeq(bytes, 1, Len(bytes) - 1)) + bytes[Len(bytes)]

BigValue(bytes) ==
    IF bytes # <<>> /\ bytes[1] >= 128
    THEN BigUnsigned(bytes) - 2 ^ (8 * Len(bytes))
    ELSE BigUnsigned(bytes)

MantissaBytes == {0, 1, 6, 10, 56, 100, 127, 128, 200, 246, 250, 255}

BigCases ==
    UNION { { DecimalCase(BigMantissa(b), BigValue(b)) : b \in [1..n -> MantissaBytes] } :
            n \in 0..MaxMantissaLen }

\* exponents of a Decimal (i32)
Exponents == {0, 1, 0 - 1, 2, 0 - 2, 2147483647, 0 - 2147483647}

\* exponents a stream can hold (i64)
WireExponents ==
    { I64FromInt(e) : e \in Exponents }
    \cup { U64Above32(0), U64Above32(1), I64_MAX, I64_MIN }

DecimalEdit(exponent, mantissa) ==
    MkEdit([name |-> <<>>, authors |-> <<>>, created_at |-> U64Zero],
           <<CreateEntity(E1, <<PV(P1, ValueDecimal(exponent, mantissa, None))>>, None)>>)

\* the bytes of a CreateEntity whose one value is the Decimal, without unit
DecimalOp(wire_exponent, mantissa) ==
    write_byte(OP_CREATE_ENTITY) \o write_id(E1) \o write_varint(USize(1))
    \o write_varint(U64Zero)
    \o write_signed_varint(wire_exponent)
    \o (IF mantissa.kind = "I64"
        THEN write_byte(0) \o write_signed_varint(mantissa.v)
        ELSE write_byte(1) \o write_varint(USize(Len(mantissa.v))) \o mantissa.v)
    \o write_varint(U64Zero)

InitDecimal ==
    /\ encoded = Nil /\ decoded = Nil /\ result = Nil /\ tail = 0
    /\ \/ /\ pc = "edit"
          /\ other \in [exponent : Exponents, case : I64Cases \cup BigCases]
          /\ edit = DecimalEdit(other.exponent, other.case.mantissa)
          /\ data = Nil
       \/ /\ pc = "bytes"
          /\ other \in [wire : WireExponents, case : I64Cases \cup BigCases]
          /\ edit = Nil
          /\ data = WireEdit(LimitDicts(DT_Decimal), 1, DecimalOp(other.wire, other.case.mantissa))

NextDecimal == EncodeFast \/ EncodeCanonical \/ DecodeBytes

SpecDecimal == InitDecimal /\ [][NextDecimal]_vars

\* the mantissa is non-zero and divisible by 10, or zero with a non-zero
\* exponent
NotNormalized(case, exponent_is_zero) ==
    IF case.zero THEN ~exponent_is_zero ELSE case.last = 0

\* a big mantissa with a redundant leading sign byte
NotMinimal(mantissa) ==
    /\ mantissa.kind = "Big" /\ Len(mantissa.v) > 1
    /\ \/ mantissa.v[1] = 0 /\ mantissa.v[2] < 128
       \/ mantissa.v[1] = 255 /\ mantissa.v[2] >= 128

\* C14 as stated: encoding and decoding a Decimal fail with
\* DecimalNotNormalized when its mantissa is non-zero and divisible by 10 or
\* zero with a non-zero exponent, in both mantissa forms, and for no other
\* Decimal (on the wire a mantissa that is not minimal is rejected as such
\* before it is tested).
C14_Original ==
    /\ pc \in {"fast", "canonical"} =>
          encoded.err = (IF NotNormalized(other.case, other.exponent = 0)
                         THEN "DecimalNotNormalized" ELSE NoErr)
    /\ pc = "bytes_decoded" =>
          result.err = (IF NotMinimal(other.case.mantissa) THEN "DecimalMantissaNotMinimal"
                        ELSE IF NotNormalized(other.case, other.wire = U64Zero)
                        THEN "DecimalNotNormalized" ELSE NoErr)

(***************************************************************************)
(* Specification NaN: encode_edit applied to edits whose one value holds   *)
(* floats, and decode_edit applied to the wire form of such a value, the   *)
(* floats being numbers inside and outside the coordinate ranges,          *)
(* infinities and NaNs of every kind.                                      *)
(***************************************************************************)
MaxEmbeddingElems == 2

\* an f64 as its little-endian bytes, with what it denotes: whether it is a
\* NaN and, if it is a number, an integer of its magnitude
F64Case(bytes, nan, magnitude) == [f |-> bytes, nan |-> nan, abs |-> magnitude]

F64_Zero == F64Case(<<0, 0, 0, 0, 0, 0, 0, 0>>, FALSE, 0)
F64_MinusOne == F64Case(<<0, 0, 0, 0, 0, 0, 240, 191>>, FALSE, 1)
F64_Minus90 == F64Case(<<0, 0, 0, 0, 0, 128, 86, 192>>, FALSE, 90)
F64_91 == F64Case(<<0, 0, 0, 0, 0, 192, 86, 64>>, FALSE, 91)
F64_Plus180 == F64Case(<<0, 0, 0, 0, 0, 128, 102, 64>>, FALSE, 180)
F64_Minus181 == F64Case(<<0, 0, 0, 0, 0, 160, 102, 192>>, FALSE, 181)
F64_Infinity == F64Case(<<0, 0, 0, 0, 0, 0, 240, 127>>, FALSE, 1000000)
F64_NaN == F64Case(<<0, 0, 0, 0, 0, 0, 248, 127>>, TRUE, 0)
F64_NegNaN == F64Case(<<0, 0, 0, 0, 0, 0, 248, 255>>, TRUE, 0)
F64_SignallingNaN == F64Case(<<1, 0, 0, 0, 0, 0, 240, 127>>, TRUE, 0)
F64_OnesNaN == F64Case(<<255, 255, 255, 255, 255, 255, 255, 255>>, TRUE, 0)

F64Cases ==
    {F64_Zero, F64_MinusOne, F64_Minus90, F64_91, F64_Plus180, F64_Minus181, F64_Infinity,
     F64_NaN, F64_NegNaN, F64_SignallingNaN, F64_OnesNaN}

\* the ordinates of the rectangles
RectCases == {F64_Zero, F64_Minus90, F64_91, F64_Minus181, F64_NaN, F64_SignallingNaN}

\* f32: 0.0, 1.0, infinity, and NaNs
F32Cases ==
    { [f |-> <<0, 0, 0, 0>>, nan |-> FALSE], [f |-> <<0, 0, 128, 63>>, nan |-> FALSE],
      [f |-> <<0, 0, 128, 127>>, nan |-> FALSE], [f |-> <<0, 0, 192, 127>>, nan |-> TRUE],
      [f |-> <<1, 0, 128, 127>>, nan |-> TRUE], [f |-> <<255, 255, 255, 255>>, nan |-> TRUE] }

\* a value holding floats: its kind, its floats in wire order, and for an
\* embedding its sub-type and declared dimensions
FloatValues ==
    [kind : {"Float64"}, parts : {<<c>> : c \in F64Cases}, sub_type : {Float32}, dims : {0}]
    \cup [kind : {"Point"},
          parts : {<<lat, lon>> : lat \in F64Cases, lon \in F64Cases}
                  \cup {<<lat, lon, alt>> : lat \in F64Cases, lon \in F64Cases,
                                           alt \in {F64_Zero, F64_Infinity, F64_NaN}},
          sub_type : {Float32}, dims : {0}]
    \cup [kind : {"Rect"},
          parts : {<<a, b, c, d>> : a \in RectCases, b \in RectCases,
                                    c \in RectCases, d \in RectCases},
          sub_type : {Float32}, dims : {0}]
    \cup UNION { [kind : {"Embedding"}, parts : [1..n -> F32Cases],
                  sub_type : {Float32}, dims : {n, n + 1} \cup {n - 1 : k \in 1..n}]
                 \cup [kind : {"Embedding"}, parts : [1..n -> F32Cases],
                       sub_type : {Int8}, dims : {4 * n}]
                 \cup [kind : {"Embedding"}, parts : [1..n -> F32Cases],
                       sub_type : {Binary}, dims : {32 * n}] :
                 n \in 0..MaxEmbeddingElems }

\* the bytes of the floats, in order
RECURSIVE FloatBytes(_)
FloatBytes(parts) ==
    IF parts = <<>> THEN <<>> ELSE Head(parts).f \o FloatBytes(Tail(parts))

FloatValue(c) ==
    CASE c.kind = "Float64" -> ValueFloat64(c.parts[1].f, None)
      [] c.kind = "Point" ->
            ValuePoint(c.parts[1].f, c.parts[2].f,
                       IF Len(c.parts) = 3 THEN <<c.parts[3].f>> ELSE <<>>)
      [] c.kind = "Rect" ->
            ValueRect(c.parts[1].f, c.parts[2].f, c.parts[3].f, c.parts[4].f)
      [] c.kind = "Embedding" -> ValueEmbedding(c.sub_type, c.dims, FloatBytes(c.parts))

FloatDataType(c) ==
    CASE c.kind = "Float64" -> DT_Float64
      [] c.kind = "Point" -> DT_Point
      [] c.kind = "Rect" -> DT_Rect
      [] c.kind = "Embedding" -> DT_Embedding

\* the bytes of a CreateEntity whose one value is the value
FloatOp(c) ==
    write_byte(OP_CREATE_ENTITY) \o write_id(E1) \o write_varint(USize(1))
    \o write_varint(U64Zero)
    \o (CASE c.kind = "Float64" -> FloatBytes(c.parts) \o write_varint(U64Zero)
          [] c.kind = "Point" -> write_byte(Len(c.parts)) \o FloatBytes(c.parts)
          [] c.kind = "Rect" -> FloatBytes(c.parts)
          [] c.kind = "Embedding" ->
                write_byte(c.sub_type) \o write_varint(USize(c.dims)) \o FloatBytes(c.parts))

FloatEdit(c) ==
    MkEdit([name |-> <<>>, authors |-> <<>>, created_at |-> U64Zero],
           <<CreateEntity(E1, <<PV(P1, FloatValue(c))>>, None)>>)

\* the embedding holds as many bytes as its dimensions need
DimsMatch(c) ==
    c.kind = "Embedding" => Len(FloatBytes(c.parts)) = bytes_for_dims(c.sub_type, c.dims)

InitNaN ==
    /\ encoded = Nil /\ decoded = Nil /\ result = Nil /\ tail = 0
    /\ other \in FloatValues
    /\ \/ /\ pc = "edit"
          /\ edit = FloatEdit(other)
          /\ data = Nil
       \/ /\ pc = "bytes"
          /\ DimsMatch(other)
          /\ edit = Nil
          /\ data = WireEdit(LimitDicts(FloatDataType(other)), 1, FloatOp(other))

NextNaN == EncodeFast \/ EncodeCanonical \/ DecodeBytes

SpecNaN == InitNaN /\ [][NextNaN]_vars

\* one of the floats of the value is a NaN (the bytes of an Int8 or Binary
\* embedding are no floats)
ContainsNaN(c) ==
    /\ c.kind = "Embedding" => c.sub_type = Float32
    /\ \E i \in 1..Len(c.parts) : c.parts[i].nan

\* a number outside [-limit, limit]
OutOfRange(c, limit) == ~c.nan /\ c.abs > limit

\* the latitudes and the longitudes of a Point or Rect
Latitudes(c) ==
    IF c.kind = "Point" THEN {c.parts[1]}
    ELSE IF c.kind = "Rect" THEN {c.parts[1], c.parts[3]} ELSE {}

Longitudes(c) ==
    IF c.kind = "Point" THEN {c.parts[2]}
    ELSE IF c.kind = "Rect" THEN {c.parts[2], c.parts[4]} ELSE {}

\* the values found in the decoded edit
DecodedValues(e) ==
    UNION { IF "values" \in DOMAIN e.ops[i]
            THEN { e.ops[i].values[j].value : j \in 1..Len(e.ops[i].values) }
            ELSE {} : i \in 1..Len(e.ops) }

\* C15 as stated: encoding a value that contains a NaN fails with
\* FloatIsNan, decoding a stream that would yield a NaN fails, and no
\* decoded edit contains a NaN.
C15_Original ==
    /\ (pc \in {"fast", "canonical"} /\ ContainsNaN(other)) => encoded.err = "FloatIsNan"
    /\ (pc = "bytes_decoded" /\ ContainsNaN(other)) => result.err # NoErr
    /\ (pc = "bytes_decoded" /\ result.err = NoErr) =>
          /\ ~ContainsNaN(other)
          /\ DecodedValues(result.val) = {FloatValue(other)}

\* C15: encoding a value that contains a NaN fails: with LatitudeOutOfRange
\* or LongitudeOutOfRange when a latitude or longitude of the Point or Rect
\* is a number outside its range, with EmbeddingDimensionMismatch when the
\* embedding does not hold the bytes its dimensions need, and with
\* FloatIsNan otherwise; a value without NaN never fails with FloatIsNan.
\* Decoding a stream that would yield a NaN fails with FloatIsNan, and a
\* decoded edit holds the value of the stream, without NaN.
C15_NoNaN ==
    /\ (pc \in {"fast", "canonical"} /\ ContainsNaN(other)) =>
          encoded.err =
             (IF \E l \in Latitudes(other) : OutOfRange(l, 90) THEN "LatitudeOutOfRange"
              ELSE IF \E l \in Longitudes(other) : OutOfRange(l, 180) THEN "LongitudeOutOfRange"
              ELSE IF ~DimsMatch(other) THEN "EmbeddingDimensionMismatch"
              ELSE "FloatIsNan")
    /\ (pc \in {"fast", "canonical"} /\ ~ContainsNaN(other)) => encoded.err # "FloatIsNan"
    /\ (pc = "bytes_decoded" /\ ContainsNaN(other)) => result.err = "FloatIsNan"
    /\ (pc = "bytes_decoded" /\ ~ContainsNaN(other)) => result.err # "FloatIsNan"
    /\ (pc = "bytes_decoded" /\ result.err = NoErr) =>
          /\ ~ContainsNaN(other)
          /\ DecodedValues(result.val) = {FloatValue(other)}

C15_Witness ==
    /\ pc = "fast"
    /\ other.kind = "Point"
    /\ other.parts = <<F64_91, F64_NaN>>
    /\ encoded.err = "LatitudeOutOfRange"

(***************************************************************************)
(* Specification Builder: a DictionaryBuilder on which the add_* methods   *)
(* are called in any order.  edit holds the builder, decoded the builder   *)
(* before the last call, other the calls made so far with the index each   *)
(* returned, result the index the last call returned.                      *)
(***************************************************************************)
MaxCalls == 3

BuilderIds == {P1, P2, P3}

BuilderCall(method, id, dt, r) ==
    /\ pc = "builder"
    /\ Len(other) < MaxCalls
    /\ edit' = r.b
    /\ decoded' = edit
    /\ result' = r.idx
    /\ other' = Append(other, [method |-> method, id |-> id, data_type |-> dt,
                               idx |-> r.idx])
    /\ UNCHANGED <<pc, encoded, data, tail>>

AddProperty ==
    \E id \in BuilderIds, dt \in {DT_Bool, DT_Text} :
        BuilderCall("properties", id, dt, add_property(edit, id, dt))

AddRelationType ==
    \E id \in BuilderIds : BuilderCall("relation_types", id, Nil, add_relation_type(edit, id))

AddLanguage ==
    \E id \in BuilderIds \cup {None} : BuilderCall("languages", id, Nil, add_language(edit, id))

AddUnit ==
    \E id \in BuilderIds \cup {None} : BuilderCall("units", id, Nil, add_unit(edit, id))

AddObject ==
    \E id \in BuilderIds : BuilderCall("objects", id, Nil, add_object(edit, id))

AddContextId ==
    \E id \in BuilderIds : BuilderCall("context_ids", id, Nil, add_context_id(edit, id))

InitBuilder ==
    /\ pc = "builder"
    /\ edit = DictionaryBuilder_new /\ decoded = DictionaryBuilder_new
    /\ other = <<>> /\ result = Nil
    /\ encoded = Nil /\ data = Nil /\ tail = 0

NextBuilder ==
    AddProperty \/ AddRelationType \/ AddLanguage \/ AddUnit \/ AddObject \/ AddContextId

SpecBuilder == InitBuilder /\ [][NextBuilder]_vars

\* the calls made on one dictionary with an id, in order
CallsOn(method) == SelectSeq(other, LAMBDA c : c.method = method /\ c.id # None)

\* the entries a dictionary should hold: the id (and, for a property, the
\* data type) of every call that is the first for its id, in call order
RECURSIVE FirstInsertions(_, _)
FirstInsertions(calls, seen) ==
    IF calls = <<>> THEN <<>>
    ELSE IF Head(calls).id \in seen THEN FirstInsertions(Tail(calls), seen)
    ELSE <<IF Head(calls).method = "properties"
           THEN <<Head(calls).id, Head(calls).data_type>> ELSE Head(calls).id>>
         \o FirstInsertions(Tail(calls), seen \cup {Head(calls).id})

IndexMapOf(method) ==
    CASE method = "properties" -> "property_indices"
      [] method = "relation_types" -> "relation_type_indices"
      [] method = "languages" -> "language_indices"
      [] method = "units" -> "unit_indices"
      [] method = "objects" -> "object_indices"
      [] method = "context_ids" -> "context_id_indices"

EntryId(method, entry) == IF method = "properties" THEN entry[1] ELSE entry

BuilderDicts ==
    {"properties", "relation_types", "languages", "units", "objects", "context_ids"}

\* C16: after any sequence of add_* calls each dictionary vector holds
\* every added id once, in first-insertion order; its index map sends each
\* id to the id's position in the vector; and every call for an id returned
\* the index of the first call for that id (one more for languages and
\* units).
C16_StableIndex ==
    pc = "builder" =>
        \A m \in BuilderDicts :
            /\ edit[m] = FirstInsertions(CallsOn(m), {})
            /\ \A i, j \in 1..Len(edit[m]) :
                  EntryId(m, edit[m][i]) = EntryId(m, edit[m][j]) => i = j
            /\ DOMAIN edit[IndexMapOf(m)] = {EntryId(m, edit[m][i]) : i \in 1..Len(edit[m])}
            /\ \A i \in 1..Len(edit[m]) : edit[IndexMapOf(m)][EntryId(m, edit[m][i])] = i - 1
            /\ \A i \in 1..Len(CallsOn(m)) :
                  LET c == CallsOn(m)[i]
                  IN  c.idx = edit[IndexMapOf(m)][c.id]
                              + (IF m \in {"languages", "units"} THEN 1 ELSE 0)

C16_Witness ==
    /\ pc = "builder"
    /\ Len(other) = 3
    /\ other[1].method = "objects" /\ other[1].id = P2
    /\ other[2].method = "objects" /\ other[2].id = P1
    /\ other[3].method = "objects" /\ other[3].id = P2
    /\ result = 0
    /\ edit.objects = <<P2, P1>>

\* WireDictionaries::get_language / get_unit: Option<&Id>
get_language(dicts, index) ==
    IF index = 0 THEN None
    ELSE IF index - 1 < Len(dicts.languages) THEN dicts.languages[index] ELSE None

get_unit(dicts, index) ==
    IF index = 0 THEN None
    ELSE IF index - 1 < Len(dicts.units) THEN dicts.units[index] ELSE None

\* the language or unit reference idx as the decoder of a value reads it
ResolveWritten(idx, table) == decode_opt_ref(write_varint(USize(idx)), 0, table)

\* C17: add_language(None) and add_unit(None) return 0 and leave the
\* builder unchanged; add_language(Some(id)) and add_unit(Some(id)) return
\* k >= 1 with dictionary[k-1] = id; the decoder resolves reference 0 to
\* none and reference N >= 1 to dictionary[N-1], so the reference returned
\* for a language or unit resolves to that language or unit.
C17_OptionalIndex ==
    (pc = "builder" /\ other # <<>> /\ other[Len(other)].method \in {"languages", "units"}) =>
        LET c == other[Len(other)]
            table == edit[c.method]
        IN  /\ c.id = None => (result = 0 /\ edit = decoded)
            /\ c.id # None => (result >= 1 /\ result <= Len(table) /\ table[result] = c.id)
            /\ ResolveWritten(result, table).err = NoErr
            /\ ResolveWritten(result, table).val = c.id
            /\ (IF c.method = "languages" THEN get_language(edit, result)
                ELSE get_unit(edit, result)) = c.id
            /\ \A n \in 1..Len(table) :
                  /\ ResolveWritten(n, table).val = table[n]
                  /\ c.method = "languages" => get_language(edit, n) = table[n]
                  /\ c.method = "units" => get_unit(edit, n) = table[n]
            /\ ResolveWritten(0, table).val = None

C17_Witness ==
    /\ pc = "builder"
    /\ Len(other) = 3
    /\ other[1].method = "languages" /\ other[1].id = P2
    /\ other[2].method = "languages" /\ other[2].id = None
    /\ other[3].method = "languages" /\ other[3].id = P1
    /\ result = 2
    /\ edit.languages = <<P2, P1>>

(***************************************************************************)
(* Specification Sorted: a DictionaryBuilder filled by add_* calls, among  *)
(* them add_context, and then consumed by into_sorted.  decoded holds the  *)
(* builder before the last call, edit the builder after it.                *)
(***************************************************************************)
BuilderEdge(type_id, to_entity_id) == [type_id |-> type_id, to_entity_id |-> to_entity_id]

BuilderContexts ==
    { [root_id |-> P1, edges |-> <<>>],
      [root_id |-> P1, edges |-> <<BuilderEdge(P2, P1)>>],
      [root_id |-> P1, edges |-> <<BuilderEdge(P2, P3)>>],
      [root_id |-> P2, edges |-> <<>>] }

AddContext ==
    \E context \in BuilderContexts :
        BuilderCall("contexts", context, Nil, add_context(edit, context))

IntoSorted ==
    /\ pc = "builder"
    /\ pc' = "sorted"
    /\ edit' = into_sorted(edit)
    /\ decoded' = edit
    /\ UNCHANGED <<other, encoded, data, tail, result>>

InitSorted == InitBuilder

NextSorted == NextBuilder \/ AddContext \/ IntoSorted

SpecSorted == InitSorted /\ [][NextSorted]_vars

\* a < b as [u8; 16]: the first byte that differs is smaller in a
IdBytesLess(a, b) ==
    \E k \in 1..16 : a[k] < b[k] /\ \A j \in 1..(k - 1) : a[j] = b[j]

\* (type_id, to_entity_id) tuples and vectors of them, as Rust orders them
EdgeLess(e, f) ==
    \/ IdBytesLess(e.type_id, f.type_id)
    \/ e.type_id = f.type_id /\ IdBytesLess(e.to_entity_id, f.to_entity_id)

EdgesLess(es, fs) ==
    \E k \in 1..(Len(fs)) :
        /\ k - 1 <= Len(es)
        /\ \A j \in 1..(k - 1) : es[j] = fs[j]
        /\ k > Len(es) \/ EdgeLess(es[k], fs[k])

ContextLess(c, d) ==
    \/ IdBytesLess(c.root_id, d.root_id)
    \/ c.root_id = d.root_id /\ EdgesLess(c.edges, d.edges)

Entries(vec) == {vec[i] : i \in 1..Len(vec)}

\* C20: into_sorted returns a builder whose dictionaries are strictly
\* ascending by raw id bytes and whose contexts ascend by (root_id, edge
\* list); each dictionary holds the entries it held before (properties with
\* their data types, the same contexts), and each rebuilt index map sends
\* every id (every context) to its position in the sorted vector.
C20_IntoSorted ==
    pc = "sorted" =>
        /\ \A m \in BuilderDicts :
              /\ \A i \in 1..(Len(edit[m]) - 1) :
                    IdBytesLess(EntryId(m, edit[m][i]), EntryId(m, edit[m][i + 1]))
              /\ Entries(edit[m]) = Entries(decoded[m])
              /\ Len(edit[m]) = Len(decoded[m])
              /\ DOMAIN edit[IndexMapOf(m)] = {EntryId(m, x) : x \in Entries(edit[m])}
              /\ \A i \in 1..Len(edit[m]) :
                    edit[IndexMapOf(m)][EntryId(m, edit[m][i])] = i - 1
        /\ \A i \in 1..(Len(edit.contexts) - 1) :
              ContextLess(edit.contexts[i], edit.contexts[i + 1])
        /\ Entries(edit.contexts) = Entries(decoded.contexts)
        /\ Len(edit.contexts) = Len(decoded.contexts)
        /\ DOMAIN edit.context_indices = Entries(edit.contexts)
        /\ \A i \in 1..Len(edit.contexts) : edit.context_indices[edit.contexts[i]] = i - 1

C20_Witness ==
    /\ pc = "sorted"
    /\ decoded.contexts = <<[root_id |-> P1, edges |-> <<BuilderEdge(P2, P1)>>],
                            [root_id |-> P1, edges |-> <<BuilderEdge(P2, P3)>>]>>
    /\ edit.contexts = <<[root_id |-> P1, edges |-> <<BuilderEdge(P2, P3)>>],
                         [root_id |-> P1, edges |-> <<BuilderEdge(P2, P1)>>]>>
    /\ decoded.properties = <<<<P1, DT_Text>>>>
    /\ decoded.context_ids = <<P1, P3>>
    /\ edit.context_ids = <<P3, P1>>

(***************************************************************************)
(* Specification Owned: edits with a leaf of every kind are encoded, plain *)
(* or compressed, and decoded again; the decoded edit is kept with its     *)
(* Cow leaves, each Cow::Borrowed (a slice of the input) or Cow::Owned.    *)
(***************************************************************************)
MaxLeafOps == 2

Cow_Borrowed(v) == [cow |-> "Borrowed", v |-> v]

Cow_Owned(v) == [cow |-> "Owned", v |-> v]

\* Cow::into_owned: the content
into_owned(c) == c.v

\* the value as decode_value builds it: every string or byte field is a
\* Cow::Borrowed of the reader's buffer
decode_value_leaves(value) ==
    CASE value.dt \in {DT_Text, DT_Bytes, DT_Schedule} -> [value EXCEPT !.value = Cow_Borrowed(@)]
      [] value.dt = DT_Decimal ->
            IF value.value.mantissa.kind = "Big"
            THEN [value EXCEPT !.value.mantissa.v = Cow_Borrowed(@)]
            ELSE value
      [] value.dt = DT_Embedding -> [value EXCEPT !.value.data = Cow_Borrowed(@)]
      [] OTHER -> value

decode_values_leaves(values) ==
    [i \in 1..Len(values) |-> [values[i] EXCEPT !.value = decode_value_leaves(@)]]

\* the op as decode_op builds it: its values, and its position as
\* decode_position returns it
decode_op_leaves(op) ==
    CASE op.op = OP_CREATE_ENTITY -> [op EXCEPT !.values = decode_values_leaves(@)]
      [] op.op = OP_UPDATE_ENTITY -> [op EXCEPT !.set_properties = decode_values_leaves(@)]
      [] op.op \in {OP_CREATE_RELATION, OP_UPDATE_RELATION} ->
            [op EXCEPT !.position = [i \in 1..Len(@) |-> Cow_Borrowed(@[i])]]
      [] OTHER -> op

value_to_owned(v) ==
    CASE v.dt = DT_Decimal ->
            IF v.value.mantissa.kind = "Big"
            THEN [v EXCEPT !.value.mantissa.v = Cow_Owned(into_owned(@))]
            ELSE v
      [] v.dt \in {DT_Text, DT_Bytes, DT_Schedule} -> [v EXCEPT !.value = Cow_Owned(into_owned(@))]
      [] v.dt = DT_Embedding -> [v EXCEPT !.value.data = Cow_Owned(into_owned(@))]
      [] OTHER -> v

pv_to_owned(pv) == [property |-> pv.property, value |-> value_to_owned(pv.value)]

\* op_to_owned with the position of a relation left as it was decoded
op_to_owned_values_only(op) ==
    CASE op.op = OP_CREATE_ENTITY ->
            [op EXCEPT !.values = [i \in 1..Len(@) |-> pv_to_owned(@[i])]]
      [] op.op = OP_UPDATE_ENTITY ->
            [op EXCEPT !.set_properties = [i \in 1..Len(@) |-> pv_to_owned(@[i])]]
      [] OTHER -> op

op_to_owned(op) ==
    CASE op.op = OP_CREATE_ENTITY ->
            [op EXCEPT !.values = [i \in 1..Len(@) |-> pv_to_owned(@[i])]]
      [] op.op = OP_UPDATE_ENTITY ->
            [op EXCEPT !.set_properties = [i \in 1..Len(@) |-> pv_to_owned(@[i])]]
      [] op.op \in {OP_CREATE_RELATION, OP_UPDATE_RELATION} ->
            [op EXCEPT !.position = [i \in 1..Len(@) |-> Cow_Owned(into_owned(@[i]))]]
      [] OTHER -> op

decode_op_owned(op) == op_to_owned(decode_op_leaves(op))

\* decode_edit with the Cow of every leaf: the borrowed decoder on a GRC2
\* input, the owned decoder on the decompressed payload of a GRC2Z input
decode_edit_leaves(input, zeros) ==
    Let(decode_edit(input, zeros), LAMBDA r :
        IF r.err # NoErr THEN r
        ELSE IF Len(input) >= 5 /\ SubSeq(input, 1, 5) = MAGIC_COMPRESSED
        THEN [r EXCEPT !.val = [@ EXCEPT !.name = Cow_Owned(@),
                                         !.ops = [i \in 1..Len(@) |-> decode_op_owned(@[i])]]]
        ELSE [r EXCEPT !.val = [@ EXCEPT !.name = Cow_Borrowed(@),
                                         !.ops = [i \in 1..Len(@) |-> decode_op_leaves(@[i])]]])

LeafOps ==
    { CreateEntity(E1, <<PV(P1, ValueText(<<97, 98>>, L1))>>, None),
      CreateEntity(E1, <<PV(P2, ValueBytes(<<0, 255>>)), PV(P1, ValueText(<<>>, None))>>, None),
      CreateEntity(E2, <<PV(P3, ValueSchedule(<<66, 69>>))>>, None),
      UpdateEntity(E1, <<PV(P4, ValueDecimal(0, BigMantissa(<<1, 1>>), None))>>, <<>>, None),
      UpdateEntity(E2, <<PV(S1, ValueEmbedding(Float32, 1, <<0, 0, 128, 63>>)),
                         PV(V1, ValueInt64(I64FromInt(7), None))>>,
                   <<Unset(T1, "All", None)>>, None),
      CreateRelation(R1, T1, E1, FALSE, E2, FALSE, [NoOpt EXCEPT !.position = <<<<97, 49>>>>]),
      UpdateRelation(R1, None, None, None, None, <<<<122>>>>, <<>>),
      IdOp(OP_DELETE_ENTITY, E1) }

LeafEdits ==
    { MkEdit([name |-> name, authors |-> <<>>, created_at |-> U64Zero], ops) :
        name \in {<<>>, <<104, 105>>}, ops \in SeqsUpTo(LeafOps, MaxLeafOps) }

DecodeLeaves ==
    /\ pc \in {"fast", "compressed"}
    /\ encoded.err = NoErr
    /\ result' = decode_edit_leaves(encoded.bytes, 0)
    /\ pc' = (IF pc = "fast" THEN "fast_leaves" ELSE "compressed_leaves")
    /\ UNCHANGED <<edit, other, encoded, decoded, data, tail>>

InitOwned ==
    /\ pc = "edit"
    /\ edit \in LeafEdits
    /\ other = Nil /\ encoded = Nil /\ decoded = Nil /\ result = Nil
    /\ data = Nil /\ tail = 0

NextOwned == EncodeFast \/ EncodeCompressed \/ DecodeLeaves

SpecOwned == InitOwned /\ [][NextOwned]_vars

\* the uncompressed payload a GRC2Z stream carries: what follows the magic,
\* the declared size and the five bytes that open the frame
PayloadOf(stream) ==
    Let(read_varint(stream, 5), LAMBDA declared :
        SubSeq(stream, declared.pos + 6, Len(stream)))

\* the Cow of every leaf of a decoded edit, and the number of leaves
ValueCows(values) ==
    { IF values[i].value.dt = DT_Decimal THEN values[i].value.value.mantissa.v.cow
      ELSE IF values[i].value.dt = DT_Embedding THEN values[i].value.value.data.cow
      ELSE values[i].value.value.cow :
        i \in { j \in 1..Len(values) :
                  \/ values[j].value.dt \in {DT_Text, DT_Bytes, DT_Schedule, DT_Embedding}
                  \/ values[j].value.dt = DT_Decimal
                     /\ values[j].value.value.mantissa.kind = "Big" } }

OpCows(op) ==
    CASE op.op = OP_CREATE_ENTITY -> ValueCows(op.values)
      [] op.op = OP_UPDATE_ENTITY -> ValueCows(op.set_properties)
      [] op.op \in {OP_CREATE_RELATION, OP_UPDATE_RELATION} ->
            {op.position[i].cow : i \in 1..Len(op.position)}
      [] OTHER -> {}

EditCows(e) == {e.name.cow} \cup UNION {OpCows(e.ops[i]) : i \in 1..Len(e.ops)}

\* the content of a leaf, of a value, of an op, of an edit: the Cow dropped
ValueContent(values) ==
    [i \in 1..Len(values) |->
        [values[i] EXCEPT !.value =
            IF @.dt \in {DT_Text, DT_Bytes, DT_Schedule} THEN [@ EXCEPT !.value = @.v]
            ELSE IF @.dt = DT_Embedding THEN [@ EXCEPT !.value.data = @.v]
            ELSE IF @.dt = DT_Decimal /\ @.value.mantissa.kind = "Big"
                 THEN [@ EXCEPT !.value.mantissa.v = @.v]
            ELSE @]]

OpContent(op) ==
    CASE op.op = OP_CREATE_ENTITY -> [op EXCEPT !.values = ValueContent(@)]
      [] op.op = OP_UPDATE_ENTITY -> [op EXCEPT !.set_properties = ValueContent(@)]
      [] op.op \in {OP_CREATE_RELATION, OP_UPDATE_RELATION} ->
            [op EXCEPT !.position = [i \in 1..Len(@) |-> @[i].v]]
      [] OTHER -> op

EditContent(e) ==
    [e EXCEPT !.name = @.v, !.ops = [i \in 1..Len(@) |-> OpContent(@[i])]]

\* C18: decode_edit of a GRC2Z input returns an edit equal in content to
\* the edit decoded from the same payload uncompressed, with every string
\* or byte leaf (edit name, Text, Bytes, Schedule, big Decimal mantissa,
\* Embedding data, relation position) an owned copy; decode_edit of a GRC2
\* input returns those leaves as borrows of the input.
C18_OwnedLeaves ==
    /\ pc = "compressed_leaves" =>
          /\ result.err = NoErr
          /\ decode_edit(PayloadOf(encoded.bytes), 0).err = NoErr
          /\ EditContent(result.val) = decode_edit(PayloadOf(encoded.bytes), 0).val
          /\ EditCows(result.val) = {"Owned"}
    /\ pc = "fast_leaves" =>
          /\ result.err = NoErr
          /\ EditContent(result.val) = decode_edit(encoded.bytes, 0).val
          /\ EditCows(result.val) = {"Borrowed"}

C18_Witness ==
    /\ pc = "compressed_leaves"
    /\ result.err = NoErr
    /\ result.val.name = Cow_Owned(<<104, 105>>)
    /\ Len(result.val.ops) = 2
    /\ result.val.ops[1].op = OP_UPDATE_ENTITY
    /\ result.val.ops[1].set_properties[1].value.dt = DT_Decimal
    /\ result.val.ops[1].set_properties[1].value.value.mantissa.v = Cow_Owned(<<1, 1>>)
    /\ result.val.ops[2].op = OP_CREATE_RELATION
    /\ result.val.ops[2].position = <<Cow_Owned(<<97, 49>>)>>

(***************************************************************************)
(* Specification Placeholder: edits in which a property enters the         *)
(* dictionary through a CreateValueRef or an unset entry of UpdateEntity   *)
(* and a later op carries a value of that property.                        *)
(***************************************************************************)
\* the op that registers P1 first, and the data type it registers
Placeholders ==
    { [op |-> CreateValueRef(V1, E2, P1, None, None), dt |-> DT_Bool],
      [op |-> CreateValueRef(V1, E2, P1, L1, None), dt |-> DT_Text],
      [op |-> UpdateEntity(E2, <<>>, <<Unset(P1, "All", None)>>, None), dt |-> DT_Bool],
      [op |-> UpdateEntity(E2, <<>>, <<Unset(P1, "Specific", L1)>>, None), dt |-> DT_Bool] }

\* values of P1, each with the data type it has
RealValues ==
    << [value |-> ValueBool(TRUE), dt |-> DT_Bool],
      [value |-> ValueInt64(I64FromInt(2), None), dt |-> DT_Int64],
      [value |-> ValueFloat64(F64_Zero.f, None), dt |-> DT_Float64],
      [value |-> ValueDecimal(0, I64Mantissa(I64FromInt(3)), None), dt |-> DT_Decimal],
      [value |-> ValueText(<<97, 98>>, None), dt |-> DT_Text],
      [value |-> ValueText(<<>>, L1), dt |-> DT_Text],
      [value |-> ValueBytes(<<1>>), dt |-> DT_Bytes],
      [value |-> ValueSchedule(<<66>>), dt |-> DT_Schedule] >>

\* the op that carries the value in an entity
RealOp(kind, value) ==
    IF kind = OP_CREATE_ENTITY THEN CreateEntity(E1, <<PV(P1, value)>>, None)
    ELSE UpdateEntity(E1, <<PV(P1, value)>>, <<>>, None)

PlaceholderEdit(in) ==
    MkEdit([name |-> <<>>, authors |-> <<>>, created_at |-> U64Zero],
           <<in.placeholder.op, RealOp(in.kind, RealValues[in.real].value)>>)

InitPlaceholder ==
    /\ pc = "edit"
    /\ other \in [placeholder : Placeholders, real : 1..Len(RealValues),
                  kind : {OP_CREATE_ENTITY, OP_UPDATE_ENTITY}]
    /\ edit = PlaceholderEdit(other)
    /\ encoded = Nil /\ decoded = Nil /\ result = Nil /\ data = Nil /\ tail = 0

NextPlaceholder == EncodeFast \/ EncodeCanonical \/ Decode

SpecPlaceholder == InitPlaceholder /\ [][NextPlaceholder]_vars

\* the values of the op that carries the value, as decoded
DecodedReal(e) ==
    IF e.ops[2].op = OP_CREATE_ENTITY THEN e.ops[2].values ELSE e.ops[2].set_properties

\* C19 as stated: when a property is first registered with a placeholder
\* data type (by CreateValueRef: Text with a language, Bool without; or by
\* an unset entry of UpdateEntity) and a later op carries a value of the
\* property, the emitted dictionary (of encode_edit and of the canonical
\* encoding) records the value's data type, and the value decodes with its
\* own type from the bytes of encode_edit.
C19_Original ==
    /\ pc \in {"fast", "canonical"} =>
          /\ encoded.err = NoErr
          /\ \E i \in 1..Len(encoded.b.properties) :
                encoded.b.properties[i] = <<P1, RealValues[other.real].dt>>
    /\ pc = "fast_decoded" =>
          /\ decoded.err = NoErr
          /\ DecodedReal(decoded.val) = <<PV(P1, RealValues[other.real].value)>>

(***************************************************************************)
(* Specification Order: the canonical encoding of edits whose one op is a  *)
(* CreateEntity or an UpdateEntity with values and unsets in every order,  *)
(* and whose authors come in every order.  Each property has one data      *)
(* type, so that the emitted op can be read back value by value.           *)
(***************************************************************************)
MaxSortLen == 3

OrderValues ==
    { PV(P1, ValueText(<<97>>, None)),
      PV(P1, ValueText(<<98>>, L1)),
      PV(P1, ValueText(<<>>, L2)),
      PV(P2, ValueInt64(I64FromInt(-1), U1)),
      PV(P3, ValueBool(TRUE)),
      PV(P4, ValueBool(FALSE)) }

OrderUnsets ==
    { Unset(P3, "All", None),
      Unset(P3, "NonLinguistic", None),
      Unset(P3, "Specific", L1),
      Unset(P3, "Specific", L2),
      Unset(P4, "All", None),
      Unset(T1, "Specific", L1) }

OrderAuthors == {AuthorA, AuthorB, EditId}

OrderEdits ==
    Let([name |-> <<104>>, authors |-> <<AuthorB, AuthorA>>, created_at |-> U64Zero], LAMBDA h :
        { MkEdit(h, <<CreateEntity(E1, vs, None)>>) : vs \in SeqsUpTo(OrderValues, MaxSortLen) }
        \cup { MkEdit(h, <<UpdateEntity(E2, <<PV(P1, ValueText(<<98>>, L1)),
                                             PV(P3, ValueBool(TRUE))>>, us, None)>>) :
                  us \in SeqsUpTo(OrderUnsets, MaxSortLen) }
        \cup { MkEdit([h EXCEPT !.authors = a], <<IdOp(OP_DELETE_ENTITY, E1)>>) :
                  a \in SeqsUpTo(OrderAuthors, MaxSortLen) })

InitOrder ==
    /\ pc = "edit"
    /\ edit \in OrderEdits
    /\ other = Nil /\ encoded = Nil /\ decoded = Nil /\ result = Nil
    /\ data = Nil /\ tail = 0

NextOrder == EncodeCanonical \/ EncodeFast

SpecOrder == InitOrder /\ [][NextOrder]_vars

\* what an encoded edit holds: the authors, the dictionaries and the first
\* op, read from the bytes
Emitted(bytes) ==
    Let(read_string(bytes, 21, MAX_STRING_LEN), LAMBDA name :
        Let(read_id_vec(bytes, name.pos, MAX_AUTHORS), LAMBDA authors :
        Let(read_signed_varint(bytes, authors.pos), LAMBDA created_at :
        Let(read_dictionaries(bytes, created_at.pos), LAMBDA dicts :
        Let(read_varint(bytes, dicts.pos), LAMBDA context_count :
        Let(read_varint(bytes, context_count.pos), LAMBDA op_count :
        Let(decode_op(bytes, op_count.pos, dicts.val), LAMBDA op :
        [authors |-> authors.val, dicts |-> dicts.val, err |-> op.err, op |-> op.val])))))))

\* the reference that stands for an id: its position in the emitted table,
\* counted from 0
RefOf(table, id) == (CHOOSE i \in 1..Len(table) : table[i] = id) - 1

PropertyRef(dicts, id) ==
    (CHOOSE i \in 1..Len(dicts.properties) : dicts.properties[i][1] = id) - 1

\* the language reference of a value: 0 for none, else position + 1
LanguageRef(dicts, id) == IF id = None THEN 0 ELSE RefOf(dicts.languages, id) + 1

\* (a, b) < (c, d), the second components compared as pairs <<high, low>>
PairLess(a, b, c, d) ==
    a < c \/ (a = c /\ (b[1] < d[1] \/ (b[1] = d[1] /\ b[2] < d[2])))

ValueRefs(dicts, pv) ==
    <<PropertyRef(dicts, pv.property), <<0, LanguageRef(dicts, pv.value.language)>>>>

\* the language key of an unset: all-languages is 0xFFFFFFFF, above every
\* index, held as <<1, 0>>
UnsetRefs(dicts, u) ==
    <<PropertyRef(dicts, u.property),
      CASE u.language.kind = "All" -> <<1, 0>>
        [] u.language.kind = "NonLinguistic" -> <<0, 0>>
        [] OTHER -> <<0, LanguageRef(dicts, u.language.id)>>>>

Ascending(dicts, list, Refs(_, _)) ==
    \A i \in 1..(Len(list) - 1) :
        PairLess(Refs(dicts, list[i])[1], Refs(dicts, list[i])[2],
                 Refs(dicts, list[i + 1])[1], Refs(dicts, list[i + 1])[2])

\* C21: in canonical output the values of every CreateEntity and
\* UpdateEntity are emitted in strictly increasing order of (property
\* reference, language reference) and the unsets in strictly increasing
\* order of (property reference, language key), all-languages last, the
\* references being indices into the emitted sorted dictionaries; authors
\* are emitted in strictly increasing byte order.
C21_CanonicalOrder ==
    (pc = "canonical" /\ encoded.err = NoErr) =>
        Let(Emitted(encoded.bytes), LAMBDA out :
            /\ out.err = NoErr
            /\ IsPermutation(out.authors, edit.authors)
            /\ \A i \in 1..(Len(out.authors) - 1) :
                  IdBytesLess(out.authors[i], out.authors[i + 1])
            /\ out.op.op = edit.ops[1].op
            /\ out.op.op = OP_CREATE_ENTITY =>
                  /\ IsPermutation(out.op.values, edit.ops[1].values)
                  /\ Ascending(out.dicts, out.op.values, ValueRefs)
            /\ out.op.op = OP_UPDATE_ENTITY =>
                  /\ IsPermutation(out.op.set_properties, edit.ops[1].set_properties)
                  /\ Ascending(out.dicts, out.op.set_properties, ValueRefs)
                  /\ IsPermutation(out.op.unset_values, edit.ops[1].unset_values)
                  /\ Ascending(out.dicts, out.op.unset_values, UnsetRefs))

C21_Witness ==
    /\ pc = "canonical" /\ encoded.err = NoErr
    /\ edit.ops[1].op = OP_UPDATE_ENTITY
    /\ edit.ops[1].unset_values =
          <<Unset(P3, "All", None), Unset(P3, "Specific", L1), Unset(P3, "Specific", L2)>>
    /\ Emitted(encoded.bytes).op.unset_values =
          <<Unset(P3, "Specific", L2), Unset(P3, "Specific", L1), Unset(P3, "All", None)>>
    /\ Emitted(encoded.bytes).op.set_properties =
          <<PV(P3, ValueBool(TRUE)), PV(P1, ValueText(<<98>>, L1))>>

(***************************************************************************)
(* Specification Contexts: add_context, add_context_id and                 *)
(* add_relation_type are called on a builder in any order; the builder,    *)
(* as it is or after into_sorted, writes its dictionaries and contexts,    *)
(* and the bytes are read back.                                            *)
(***************************************************************************)
\* the three lookups of write_contexts that end in expect(): all succeed
contexts_lookups_ok(b) ==
    \A i \in 1..Len(b.contexts) :
        /\ b.contexts[i].root_id \in DOMAIN b.context_id_indices
        /\ \A j \in 1..Len(b.contexts[i].edges) :
              /\ b.contexts[i].edges[j].type_id \in DOMAIN b.relation_type_indices
              /\ b.contexts[i].edges[j].to_entity_id \in DOMAIN b.context_id_indices

WriteContexts ==
    /\ pc \in {"builder", "sorted"}
    /\ pc' = "written"
    /\ encoded' = (IF contexts_lookups_ok(edit)
                   THEN EOk(write_dictionaries(edit) \o write_contexts(edit), edit)
                   ELSE EErr("panic", Nil))
    /\ UNCHANGED <<edit, other, decoded, data, tail, result>>

\* the dictionaries and then the contexts, as decode_edit reads them
ReadContexts ==
    /\ pc = "written"
    /\ encoded.err = NoErr
    /\ pc' = "contexts_read"
    /\ result' = Let(read_dictionaries(encoded.bytes, 0), LAMBDA dicts :
                     Let(read_varint(encoded.bytes, dicts.pos), LAMBDA cc :
                     IF dicts.err # NoErr THEN dicts
                     ELSE IF cc.err # NoErr THEN cc
                     ELSE decode_contexts(encoded.bytes, cc.pos, U64Small(cc.val), dicts.val)))
    /\ UNCHANGED <<edit, other, encoded, decoded, data, tail>>

InitContexts == InitBuilder

NextContexts ==
    AddContext \/ AddContextId \/ AddRelationType \/ IntoSorted \/ WriteContexts \/ ReadContexts

SpecContexts == InitContexts /\ [][NextContexts]_vars

\* C22: after any sequence of add_context calls, and after into_sorted, no
\* two contexts of the builder are equal, every root_id and every edge's
\* to_entity_id is in context_ids and every edge's type_id is in
\* relation_types (in the vector and in its index map), so write_contexts
\* fails no lookup, and the contexts it writes decode to the same list.
C22_ContextsClosed ==
    /\ pc \in {"builder", "sorted", "written", "contexts_read"} =>
          /\ \A i, j \in 1..Len(edit.contexts) : edit.contexts[i] = edit.contexts[j] => i = j
          /\ \A i \in 1..Len(edit.contexts) :
                /\ edit.contexts[i].root_id \in Entries(edit.context_ids)
                /\ edit.contexts[i].root_id \in DOMAIN edit.context_id_indices
                /\ \A j \in 1..Len(edit.contexts[i].edges) :
                      /\ edit.contexts[i].edges[j].type_id \in Entries(edit.relation_types)
                      /\ edit.contexts[i].edges[j].type_id \in DOMAIN edit.relation_type_indices
                      /\ edit.contexts[i].edges[j].to_entity_id \in Entries(edit.context_ids)
                      /\ edit.contexts[i].edges[j].to_entity_id \in DOMAIN edit.context_id_indices
    /\ pc = "written" => encoded.err = NoErr
    /\ pc = "contexts_read" =>
          /\ result.err = NoErr
          /\ result.val.contexts = edit.contexts
          /\ result.pos = Len(encoded.bytes)

C22_Witness ==
    /\ pc = "contexts_read"
    /\ result.err = NoErr
    /\ Len(other) = 3
    /\ other[1].method = "context_ids" /\ other[1].id = P3
    /\ other[2].method = "contexts" /\ other[3].method = "contexts"
    /\ decoded.contexts = <<[root_id |-> P1, edges |-> <<BuilderEdge(P2, P1)>>],
                            [root_id |-> P1, edges |-> <<BuilderEdge(P2, P3)>>]>>
    /\ result.val.contexts = <<[root_id |-> P1, edges |-> <<BuilderEdge(P2, P3)>>],
                               [root_id |-> P1, edges |-> <<BuilderEdge(P2, P1)>>]>>
    /\ edit.context_ids = <<P3, P1>>

(***************************************************************************)
(* Specification Unset: edits whose one op is an UpdateRelation with an    *)
(* unset list in every order, with repetitions, and several choices of the *)
(* fields that are set, encoded and decoded again.                         *)
(***************************************************************************)
MaxUnsetLen == 3

UnsetLists == SeqsUpTo({UnsetRelationFields[k] : k \in 1..5}, MaxUnsetLen)

\* from_space, from_version, to_space, to_version, position
SetFields ==
    { <<None, None, None, None, <<>>>>,
      <<S1, V1, T1, R1, <<<<97, 49>>>>>>,
      <<S1, None, None, None, <<<<122>>>>>>,
      <<None, V1, S1, None, <<>>>>,
      <<None, None, None, V1, <<>>>> }

UnsetEdit(set, unset) ==
    MkEdit([name |-> <<>>, authors |-> <<>>, created_at |-> U64Zero],
           <<UpdateRelation(R1, set[1], set[2], set[3], set[4], set[5], unset)>>)

InitUnset ==
    /\ pc = "edit"
    /\ other \in [set : SetFields, unset : UnsetLists]
    /\ edit = UnsetEdit(other.set, other.unset)
    /\ encoded = Nil /\ decoded = Nil /\ result = Nil /\ data = Nil /\ tail = 0

NextUnset == EncodeFast \/ EncodeCanonical \/ Decode

SpecUnset == InitUnset /\ [][NextUnset]_vars

\* the place of a field in the order FromSpace, FromVersion, ToSpace,
\* ToVersion, Position
FieldRank(f) ==
    CASE f = "FromSpace" -> 1
      [] f = "FromVersion" -> 2
      [] f = "ToSpace" -> 3
      [] f = "ToVersion" -> 4
      [] f = "Position" -> 5

\* C23: encoding and then decoding an UpdateRelation yields an unset list
\* holding exactly the distinct fields of the input list, in the order
\* FromSpace, FromVersion, ToSpace, ToVersion, Position, whatever the order
\* and repetitions of the input; the fields that are set round-trip
\* unchanged.
C23_UnsetRoundTrip ==
    /\ pc \in {"fast", "canonical"} => encoded.err = NoErr
    /\ pc \in {"fast_decoded", "canonical_decoded"} =>
          /\ decoded.err = NoErr
          /\ Len(decoded.val.ops) = 1
          /\ Let(decoded.val.ops[1], LAMBDA ur :
                /\ ur.op = OP_UPDATE_RELATION
                /\ ur.id = R1
                /\ {ur.unset[i] : i \in 1..Len(ur.unset)}
                      = {other.unset[i] : i \in 1..Len(other.unset)}
                /\ \A i \in 1..(Len(ur.unset) - 1) :
                      FieldRank(ur.unset[i]) < FieldRank(ur.unset[i + 1])
                /\ <<ur.from_space, ur.from_version, ur.to_space, ur.to_version, ur.position>>
                      = other.set)

C23_Witness ==
    /\ pc = "fast_decoded"
    /\ other.unset = <<"Position", "FromSpace", "Position">>
    /\ other.set = <<S1, None, None, None, <<<<122>>>>>>
    /\ decoded.err = NoErr
    /\ decoded.val.ops[1].unset = <<"FromSpace", "Position">>
    /\ decoded.val.ops[1].position = <<<<122>>>>

(***************************************************************************)
(* Specification UnsetLanguage: the language of the unset entries of an    *)
(* UpdateEntity, from the encoder's side (edits encoded and decoded again) *)
(* and from the decoder's side (wire forms whose unset language takes      *)
(* every value around the size of the languages dictionary, the value      *)
(* 0xFFFFFFFF and values beyond 32 bits).                                  *)
(***************************************************************************)
UnsetLanguages ==
    { [kind |-> "All", id |-> None], [kind |-> "NonLinguistic", id |-> None],
      [kind |-> "Specific", id |-> L1], [kind |-> "Specific", id |-> L2],
      [kind |-> "Specific", id |-> T1] }

UnsetLanguageEdits ==
    { MkEdit([name |-> <<>>, authors |-> <<>>, created_at |-> U64Zero],
             <<UpdateEntity(E1, <<>>,
                            [i \in 1..Len(ls) |-> [property |-> P1, language |-> ls[i]]],
                            None)>>) :
      ls \in SeqsUpTo(UnsetLanguages, 2) \ {<<>>} }

UnsetLanguageSite == [site |-> "unset.language", dict |-> "languages", opt |-> TRUE]

InitUnsetLanguage ==
    /\ encoded = Nil /\ decoded = Nil /\ result = Nil /\ tail = 0
    /\ \/ /\ pc = "edit"
          /\ edit \in UnsetLanguageEdits
          /\ other = Nil /\ data = Nil
       \/ /\ pc = "bytes"
          /\ edit = Nil
          /\ other \in { in \in RefInputs : in.ref = UnsetLanguageSite }
          /\ data = RefStream(other.ref, other.size, other.index)

NextUnsetLanguage == EncodeFast \/ Decode \/ DecodeBytes

SpecUnsetLanguage == InitUnsetLanguage /\ [][NextUnsetLanguage]_vars

\* the language varints of count unset entries that start at p
RECURSIVE UnsetLanguageVarints(_, _, _)
UnsetLanguageVarints(bytes, p, count) ==
    IF count = 0 THEN <<>>
    ELSE Let(read_varint(bytes, p), LAMBDA property :
         Let(read_varint(bytes, property.pos), LAMBDA language :
             <<language.val>> \o UnsetLanguageVarints(bytes, language.pos, count - 1)))

\* the languages dictionary and the unset language varints of the first op,
\* an UpdateEntity without set properties, read from an encoded edit
EmittedUnsets(bytes) ==
    Let(read_string(bytes, 21, MAX_STRING_LEN), LAMBDA name :
        Let(read_id_vec(bytes, name.pos, MAX_AUTHORS), LAMBDA authors :
        Let(read_signed_varint(bytes, authors.pos), LAMBDA created_at :
        Let(read_dictionaries(bytes, created_at.pos), LAMBDA dicts :
        Let(read_varint(bytes, dicts.pos), LAMBDA context_count :
        Let(read_varint(bytes, context_count.pos), LAMBDA op_count :
        Let(read_varint(bytes, op_count.pos + 1), LAMBDA id :
        Let(read_varint(bytes, id.pos + 1), LAMBDA count :
        [languages |-> dicts.val.languages,
         wire |-> UnsetLanguageVarints(bytes, count.pos, U64Small(count.val))]))))))))

\* C24 as stated: the language of an UpdateEntity unset entry round-trips:
\* all-languages is written as 0xFFFFFFFF, the non-linguistic slot as 0, a
\* specific language L as the index N >= 1 with languages[N-1] = L, never
\* 0xFFFFFFFF; the decoder yields all-languages only for the wire value that
\* is exactly 0xFFFFFFFF and the non-linguistic slot only for the wire value
\* that is exactly 0.
C24_Original ==
    /\ pc = "fast" =>
          /\ encoded.err = NoErr
          /\ Let(EmittedUnsets(encoded.bytes), LAMBDA e :
             Let(edit.ops[1].unset_values, LAMBDA unsets :
                /\ Len(e.wire) = Len(unsets)
                /\ \A i \in 1..Len(unsets) :
                      CASE unsets[i].language.kind = "All" -> e.wire[i] = SENTINEL
                        [] unsets[i].language.kind = "NonLinguistic" -> e.wire[i] = U64Zero
                        [] OTHER ->
                              /\ e.wire[i] # SENTINEL
                              /\ U64Small(e.wire[i]) \in 1..Len(e.languages)
                              /\ e.languages[U64Small(e.wire[i])] = unsets[i].language.id))
    /\ pc = "fast_decoded" =>
          /\ decoded.err = NoErr
          /\ decoded.val.ops[1].unset_values = edit.ops[1].unset_values
    /\ (pc = "bytes_decoded" /\ result.err = NoErr) =>
          Let(result.val.ops[1].unset_values[1].language, LAMBDA language :
             /\ language.kind = "All" => other.index = SENTINEL
             /\ language.kind = "NonLinguistic" => other.index = U64Zero
             /\ language.kind = "Specific" =>
                   /\ U64Small(other.index) \in 1..other.size
                   /\ language.id = RefIds[U64Small(other.index)])

\* the encoder's half of C24 and the decoder's half on wire values below 2^32
C24_Below32 ==
    (pc = "bytes_decoded" => U64Lt(other.index, U64Above32(0))) => C24_Original

C24_Reached ==
    /\ pc = "bytes_decoded"
    /\ other.index = U64Above32(0)
    /\ result.err = NoErr
    /\ result.val.ops[1].unset_values[1].language.kind = "NonLinguistic"

(***************************************************************************)
(* Specification Prefix: decode_edit applied to inputs that end right      *)
(* after a length or count prefix, so that a prefix tested before its body *)
(* is read fails on the test and a prefix used first fails on the read.    *)
(***************************************************************************)
MantissaLenSite == "decimal.mantissa_len"

\* the maximum a prefix is held to; no constant names one for the length of
\* a big mantissa, and MAX_EDIT_SIZE bounds every field of an edit
PrefixLimit(site) == IF site = MantissaLenSite THEN MAX_EDIT_SIZE ELSE LimitOf(site)

PrefixLengths(site) ==
    { U64FromNat(n) : n \in {0, 1} \cup { PrefixLimit(site) + k : k \in (0 - 1)..1 } }
    \cup (IF site = MantissaLenSite
          THEN { U64Above32(0), [U64_MAX EXCEPT ![1] = 0], U64_MAX }
          ELSE {})

PrefixInputs ==
    UNION { [site : {site}, n : PrefixLengths(site)] :
            site \in {LimitSites[i] : i \in 1..Len(LimitSites)} \cup {MantissaLenSite} }

\* the bytes of an edit up to and including the prefix named by site
PrefixStream(site, n) ==
    IF site = MantissaLenSite
    THEN WireEdit(LimitDicts(DT_Decimal), 1,
                  write_byte(OP_CREATE_ENTITY) \o write_id(E1) \o write_varint(USize(1))
                  \o write_varint(U64Zero) \o write_signed_varint(U64Zero) \o <<1>>
                  \o write_varint(n))
    ELSE LimitStream(site, U64Small(n))

InitPrefix ==
    /\ encoded = Nil /\ decoded = Nil /\ result = Nil /\ tail = 0 /\ edit = Nil
    /\ pc = "bytes"
    /\ other \in PrefixInputs
    /\ data = PrefixStream(other.site, other.n)

NextPrefix == DecodeBytes

SpecPrefix == InitPrefix /\ [][NextPrefix]_vars

\* C25 as stated: in decode every varint length or count prefix, the length
\* of a big Decimal mantissa included, is compared with its maximum before
\* any byte of the body is read: an input that ends after a prefix above the
\* maximum fails on the comparison, and no body read is issued with a length
\* that was not bounded first.
C25_Original ==
    pc = "bytes_decoded" =>
        IF U64Gt(other.n, PrefixLimit(other.site))
        THEN result.err = "LengthExceedsLimit"
        ELSE result.err \in {NoErr, "UnexpectedEof"}

\* C25 for every prefix but the length of a big mantissa
C25_Bounded == other.site # MantissaLenSite => C25_Original

C25_Reached ==
    /\ pc = "bytes_decoded"
    /\ other.site = MantissaLenSite
    /\ other.n = U64_MAX
    /\ result.err = "panic"

(***************************************************************************)
(* Specification Divisible: is_big_mantissa_divisible_by_10 applied to     *)
(* big-endian two's-complement byte strings of every length up to          *)
(* MaxBigLen, minimal or not, over bytes of every residue and both signs.  *)
(***************************************************************************)
MaxBigLen == 3

BigBytes == {0, 1, 2, 3, 4, 5, 6, 7, 9, 10, 127, 128, 129, 246, 250, 255}

InitDivisible ==
    /\ pc = "mantissa"
    /\ data \in SeqsUpTo(BigBytes, MaxBigLen) \ {<<>>}
    /\ edit = Nil /\ other = Nil /\ encoded = Nil /\ decoded = Nil /\ result = Nil
    /\ tail = 0

IsBigMantissaDivisibleBy10 ==
    /\ pc = "mantissa"
    /\ result' = is_big_mantissa_divisible_by_10(data)
    /\ pc' = "mantissa_tested"
    /\ UNCHANGED <<edit, other, encoded, decoded, data, tail>>

NextDivisible == IsBigMantissaDivisibleBy10

SpecDivisible == InitDivisible /\ [][NextDivisible]_vars

\* the signed integer a big-endian two's-complement byte string denotes
RECURSIVE TwosComplementFrom(_, _, _)
TwosComplementFrom(bytes, k, acc) ==
    IF k > Len(bytes) THEN acc
    ELSE TwosComplementFrom(bytes, k + 1, acc * 256 + bytes[k])

TwosComplement(bytes) ==
    TwosComplementFrom(bytes, 2, IF bytes[1] >= 128 THEN bytes[1] - 256 ELSE bytes[1])

\* C26: for every non-empty big-endian two's-complement byte string b,
\* is_big_mantissa_divisible_by_10(b) is true exactly when the signed integer
\* b denotes is divisible by 10, for positive and negative values and every
\* length.
C26_DivisibleBy10 ==
    pc = "mantissa_tested" => (result <=> (TwosComplement(data) % 10 = 0))

C26_Witness ==
    /\ pc = "mantissa_tested"
    /\ data = <<255, 246>>
    /\ TwosComplement(data) = -10
    /\ result = TRUE

(***************************************************************************)
(* Specification TwoPass: the canonical encoder applied to edits of up   *)
(* to two ops that name properties, languages, relation types, objects     *)
(* and, for CreateEntity and UpdateEntity, a context or none.              *)
(***************************************************************************)
TwoPassContext == [root_id |-> E1, edges |-> <<BuilderEdge(T1, E2)>>]

TwoPassOps ==
    { CreateEntity(E1, <<PV(P1, ValueText(<<97>>, L1))>>, None),
      CreateEntity(E2, <<PV(P2, ValueBool(TRUE))>>, TwoPassContext),
      CreateEntity(E2, <<PV(P1, ValueText(<<98>>, L2)), PV(P1, ValueText(<<98>>, None))>>,
                   [root_id |-> E2, edges |-> <<>>]),
      UpdateEntity(E1, <<>>, <<Unset(P3, "Specific", L2)>>, None),
      UpdateEntity(E2, <<PV(P2, ValueBool(FALSE))>>, <<Unset(P3, "All", None)>>,
                   TwoPassContext),
      IdOp(OP_DELETE_ENTITY, E2),
      IdOp(OP_RESTORE_RELATION, R1),
      UpdateRelation(R1, S1, None, None, None, <<>>, <<"Position">>) }

TwoPassEdits ==
    { MkEdit([name |-> <<>>, authors |-> <<>>, created_at |-> U64Zero], ops) :
      ops \in SeqsUpTo(TwoPassOps, 2) }

InitTwoPass ==
    /\ pc = "edit"
    /\ edit \in TwoPassEdits
    /\ other = Nil /\ encoded = Nil /\ decoded = Nil /\ result = Nil /\ data = Nil
    /\ tail = 0

NextTwoPass == EncodeCanonical

SpecTwoPass == InitTwoPass /\ [][NextTwoPass]_vars

\* the dictionaries and contexts an encoded edit holds, read from its bytes
EmittedTables(bytes) ==
    Let(read_string(bytes, 21, MAX_STRING_LEN), LAMBDA name :
        Let(read_id_vec(bytes, name.pos, MAX_AUTHORS), LAMBDA authors :
        Let(read_signed_varint(bytes, authors.pos), LAMBDA created_at :
        Let(read_dictionaries(bytes, created_at.pos), LAMBDA dicts :
        Let(read_varint(bytes, dicts.pos), LAMBDA cc :
        IF dicts.err # NoErr THEN dicts
        ELSE IF cc.err # NoErr THEN cc
        ELSE decode_contexts(bytes, cc.pos, U64Small(cc.val), dicts.val))))))

\* C28 as stated: in canonical encoding pass 2 adds no dictionary entry and
\* no context: after the ops have been re-encoded the builder used for them
\* has the dictionaries and contexts of the sorted builder whose tables are
\* emitted, so every context an op names is in the emitted table.
C28_Original ==
    (pc = "canonical" /\ encoded.err = NoErr) =>
        Let(EmittedTables(encoded.bytes), LAMBDA t :
            /\ t.err = NoErr
            /\ encoded.b.properties = t.val.properties
            /\ encoded.b.relation_types = t.val.relation_types
            /\ encoded.b.languages = t.val.languages
            /\ encoded.b.units = t.val.units
            /\ encoded.b.objects = t.val.objects
            /\ encoded.b.context_ids = t.val.context_ids
            /\ encoded.b.contexts = t.val.contexts
            /\ \A i \in 1..Len(edit.ops) :
                  edit.ops[i].context # None =>
                      \E j \in 1..Len(t.val.contexts) : t.val.contexts[j] = edit.ops[i].context)

\* C28 for the edits in which no op names a context
C28_WithoutContext ==
    (\A i \in 1..Len(edit.ops) : edit.ops[i].context = None) => C28_Original

C28_Reached ==
    /\ pc = "canonical"
    /\ encoded.err = NoErr
    /\ Len(edit.ops) = 1
    /\ edit.ops[1].context = TwoPassContext
    /\ encoded.b.contexts = <<TwoPassContext>>
    /\ EmittedTables(encoded.bytes).val.contexts = <<>>
    /\ EmittedTables(encoded.bytes).val.context_ids = <<>>

(***************************************************************************)
(* Specification Trailing: decode_edit applied to the encoding of an edit  *)
(* followed by extra bytes, as it stands and inside a compressed frame     *)
(* whose declared size counts the extra bytes.                             *)
(***************************************************************************)
TrailingOps ==
    { IdOp(OP_DELETE_ENTITY, E1),
      CreateEntity(E1, <<PV(P1, ValueText(<<97>>, L1))>>, None),
      UpdateRelation(R1, S1, None, None, None, <<>>, <<"Position">>) }

TrailingEdits ==
    { MkEdit([name |-> <<104>>, authors |-> <<>>, created_at |-> U64Zero], ops) :
      ops \in SeqsUpTo(TrailingOps, 2) }

\* nothing, one byte, an op tag with an object reference, three bytes
ExtraBytes == {<<>>, <<0>>, <<3, 0>>, <<255, 255, 255>>}

TrailingInput(e, extra, compressed) ==
    Let(encode_edit(e).bytes \o extra, LAMBDA bytes :
        IF compressed
        THEN MAGIC_COMPRESSED \o write_varint(USize(Len(bytes))) \o zstd_encode_all(bytes)
        ELSE bytes)

InitTrailing ==
    /\ pc = "bytes"
    /\ edit \in TrailingEdits
    /\ other \in [extra : ExtraBytes, compressed : BOOLEAN]
    /\ data = TrailingInput(edit, other.extra, other.compressed)
    /\ encoded = Nil /\ decoded = Nil /\ result = Nil /\ tail = 0

NextTrailing == DecodeBytes

SpecTrailing == InitTrailing /\ [][NextTrailing]_vars

\* C30 as stated: decode_edit accepts an input only if it is consumed
\* exactly: an input in which bytes remain after the declared number of ops
\* has been decoded is rejected.
C30_Original ==
    pc = "bytes_decoded" =>
        IF other.extra = <<>>
        THEN result.err = NoErr /\ result.val.ops = edit.ops
        ELSE result.err # NoErr

C30_Reached ==
    /\ pc = "bytes_decoded"
    /\ ~other.compressed
    /\ other.extra = <<3, 0>>
    /\ result.err = NoErr
    /\ result.val = decode_edit(encode_edit(edit).bytes, 0).val
    /\ result.pos = Len(data) - 2
    /\ Len(result.val.ops) = 2

(***************************************************************************)
(* Specification Reader: a Reader over a short input on which read_byte    *)
(* and read_bytes are called in any order, read_bytes with lengths that    *)
(* fit, that pass the end, and that lie near the maximum of usize.  other  *)
(* holds the Reader's cursor and the number of calls made, result the      *)
(* last call and what it returned.                                         *)
(***************************************************************************)
MaxReads == 3

MaxReaderLen == 3

ReaderInputs == SeqsUpTo({7, 200}, MaxReaderLen)

\* the lengths asked of read_bytes: 0..MaxReaderLen + 1, 2^32, 2^63,
\* usize::MAX - 2, usize::MAX - 1 and usize::MAX
ReadLengths ==
    { U64FromNat(n) : n \in 0..(MaxReaderLen + 1) }
    \cup { U64Above32(0), I64_MIN, [U64_MAX EXCEPT ![1] = 125],
           [U64_MAX EXCEPT ![1] = 126], U64_MAX }

InitReader ==
    /\ pc = "reader"
    /\ data \in ReaderInputs
    /\ other = [pos |-> 0, calls |-> 0]
    /\ result = Nil
    /\ edit = Nil /\ encoded = Nil /\ decoded = Nil /\ tail = 0

\* one call on the Reader: the cursor moves to where the call left it, and a
\* call that panics ends the run
ReaderCall(call, n, r) ==
    /\ result' = [call |-> call, n |-> n, before |-> other.pos, err |-> r.err, val |-> r.val]
    /\ other' = [pos |-> r.pos, calls |-> other.calls + 1]
    /\ pc' = IF r.err = "panic" THEN "panicked" ELSE "reader"
    /\ UNCHANGED <<edit, encoded, decoded, data, tail>>

ReaderReadByte ==
    /\ pc = "reader"
    /\ other.calls < MaxReads
    /\ ReaderCall("read_byte", U64FromNat(1), read_byte(data, other.pos))

ReaderReadBytes ==
    /\ pc = "reader"
    /\ other.calls < MaxReads
    /\ \E n \in ReadLengths : ReaderCall("read_bytes", n, read_bytes_usize(data, other.pos, n))

NextReader == ReaderReadByte \/ ReaderReadBytes

SpecReader == InitReader /\ [][NextReader]_vars

\* C29 as stated: after any sequence of read calls the cursor satisfies
\* 0 <= pos <= len(data); every call, whatever the requested n, returns the
\* bytes or fails with UnexpectedEof; a successful read_bytes(n) returns
\* data[pos..pos+n] and advances pos by exactly n; a call that fails with
\* UnexpectedEof leaves pos unchanged.
C29_Original ==
    /\ other.pos \in 0..Len(data)
    /\ result # Nil =>
          /\ result.err \in {NoErr, "UnexpectedEof"}
          /\ (result.err = NoErr /\ result.call = "read_bytes") =>
                /\ U64Small(result.n) # -1
                /\ result.val = [i \in 1..U64Small(result.n) |-> data[result.before + i]]
                /\ other.pos = result.before + U64Small(result.n)
          /\ (result.err = NoErr /\ result.call = "read_byte") =>
                /\ result.val = data[result.before + 1]
                /\ other.pos = result.before + 1
          /\ result.err = "UnexpectedEof" => other.pos = result.before

\* C29 for the calls in which pos + n does not pass the maximum of usize
C29_WithoutOverflow == pc # "panicked" => C29_Original

C29_Reached ==
    /\ pc = "panicked"
    /\ result.call = "read_bytes"
    /\ result.n = U64_MAX
    /\ result.before = 1
    /\ Len(data) = 3
    /\ other.pos = 1

(***************************************************************************)
(* Specification Varint: read_varint applied to byte strings made of a run *)
(* of continuation bytes followed by a short tail.                         *)
(***************************************************************************)
MaxCont == 11

ContBytes == {128, 255}

VarintTails == {<<>>, <<0>>, <<1>>, <<2>>, <<127>>, <<1, 5>>}

VarintInputs ==
    UNION { { c \o t : c \in [1..k -> ContBytes], t \in VarintTails } : k \in 0..MaxCont }

InitVarint ==
    /\ pc = "varint"
    /\ data \in VarintInputs
    /\ tail = 0
    /\ result = Nil
    /\ edit = Nil /\ other = Nil /\ encoded = Nil /\ decoded = Nil

ReadVarint ==
    /\ pc = "varint"
    /\ result' = read_varint(data, 0)
    /\ pc' = "varint_done"
    /\ UNCHANGED <<edit, other, encoded, decoded, data, tail>>

NextVarint == ReadVarint

SpecVarint == InitVarint /\ [][NextVarint]_vars

HasCont(b) == b \div 128 = 1

\* C10: read_varint consumes at most 10 bytes; it fails with VarintTooLong
\* or VarintOverflow when the first ten bytes all carry the continuation
\* bit and when the tenth byte of the varint carries payload bits other
\* than bit 0; a returned value has exactly the payload of the consumed
\* bytes as its base-128 digits (so it is below 2^64 and no bit is lost),
\* and the consumed bytes are a run of continuation bytes and a final byte
\* without the continuation bit.
C10_ReadVarint ==
    pc = "varint_done" =>
        /\ result.pos <= 10
        /\ (Len(data) >= 10 /\ \A k \in 1..10 : HasCont(data[k]))
              => result.err \in {"VarintTooLong", "VarintOverflow"}
        /\ (Len(data) >= 10 /\ (\A k \in 1..9 : HasCont(data[k])) /\ data[10] % 128 > 1)
              => result.err \in {"VarintTooLong", "VarintOverflow"}
        /\ result.err = NoErr =>
              /\ result.pos >= 1
              /\ \A k \in 1..(result.pos - 1) : HasCont(data[k])
              /\ ~HasCont(data[result.pos])
              /\ \A k \in 1..10 :
                    result.val[k] = IF k <= result.pos THEN data[k] % 128 ELSE 0
              /\ result.val[10] <= 1

\* a ten byte varint is returned: nine continuation bytes and a final 0x01
C10_Witness ==
    /\ pc = "varint_done"
    /\ result.err = NoErr
    /\ result.pos = 10
    /\ result.val[10] = 1

(***************************************************************************)
(* Specification RoundTrip: write_signed_varint followed by                *)
(* read_signed_varint, and write_varint followed by read_varint, on 64-bit *)
(* values of every encoded length, the extremes of i64 and u64 included,   *)
(* with and without bytes after the varint.                                *)
(***************************************************************************)
MaxFreeDigits == 2

VarintDigits == {0, 1, 64, 127}

\* 64-bit values, as ten base-128 digits: the low MaxFreeDigits digits take
\* every value of VarintDigits, the digits up to n are all 0 or all 127, and
\* bit 63 is 0 or 1
RoundTripValues ==
    { [k \in 1..10 |->
          IF k <= MaxFreeDigits THEN in.low[k]
          ELSE IF k = 10 THEN in.top
          ELSE IF k <= in.n THEN in.fill ELSE 0] :
      in \in [low : [1..MaxFreeDigits -> VarintDigits], n : 0..9, fill : {0, 127},
              top : {0, 1}] }

TrailingBytes == {<<>>, <<0>>, <<129, 1>>}

InitRoundTrip ==
    /\ pc = "value"
    /\ other \in RoundTripValues
    /\ edit = Nil /\ encoded = Nil /\ decoded = Nil /\ result = Nil /\ data = Nil
    /\ tail = 0

WriteSignedVarint ==
    /\ pc = "value"
    /\ encoded' = write_signed_varint(other)
    /\ \E trailing \in TrailingBytes : data' = encoded' \o trailing
    /\ pc' = "signed_varint"
    /\ UNCHANGED <<edit, other, decoded, tail, result>>

ReadSignedVarint ==
    /\ pc = "signed_varint"
    /\ result' = read_signed_varint(data, 0)
    /\ pc' = "signed_varint_done"
    /\ UNCHANGED <<edit, other, encoded, decoded, data, tail>>

WriteVarint ==
    /\ pc = "value"
    /\ encoded' = write_varint(other)
    /\ \E trailing \in TrailingBytes : data' = encoded' \o trailing
    /\ pc' = "varint"
    /\ UNCHANGED <<edit, other, decoded, tail, result>>

NextRoundTrip == WriteSignedVarint \/ ReadSignedVarint \/ WriteVarint \/ ReadVarint

SpecRoundTrip == InitRoundTrip /\ [][NextRoundTrip]_vars

\* C27: for every i64 v, i64::MIN and i64::MAX included, write_signed_varint
\* followed by read_signed_varint returns v and consumes exactly the bytes
\* written, between 1 and 10; zigzag_decode(zigzag_encode(v)) = v; and
\* write_varint followed by read_varint returns the same u64 for every u64.
C27_VarintRoundTrip ==
    /\ pc = "signed_varint_done" =>
          /\ result.err = NoErr
          /\ result.val = other
          /\ result.pos = Len(encoded)
          /\ Len(encoded) \in 1..10
          /\ zigzag_decode(zigzag_encode(other)) = other
    /\ pc = "varint_done" =>
          /\ result.err = NoErr
          /\ result.val = other
          /\ result.pos = Len(encoded)
          /\ Len(encoded) \in 1..10

C27_Witness ==
    /\ pc = "signed_varint_done"
    /\ other = I64_MIN
    /\ zigzag_encode(other) = U64_MAX
    /\ Len(encoded) = 10
    /\ Len(data) = 12
    /\ result.val = I64_MIN
    /\ result.pos = 10

====
